---- MODULE Spec2Model ----
(***************************************************************************)
(* Level routing, Level merging and the time-budgeted wall rebuild of      *)
(* BuildingTopologySource (osm-floorplans).                                *)
(*                                                                         *)
(* Geometry is one-dimensional: a geometry is a finite set of grid points  *)
(* on a line whose unit is ten grid steps.  The jsts kernel is             *)
(* modelled by set algebra on such sets: union, difference, intersects,    *)
(* envelope (the interval between the least and the greatest point) and    *)
(* buffer (dilation or erosion by a number of grid steps).                 *)
(*                                                                         *)
(* Numbers read from a level tag are fixed-point: the value v is held as   *)
(* v * LevelScale, NaN is a reserved value outside the range of the tags.   *)
(*                                                                         *)
(* The label placement of LabelRenderer works on the screen: there a       *)
(* geometry is an axis-parallel rectangle in pixels, a label is the box    *)
(* of its text, and the browser's layout is a function from the content    *)
(* and the CSS width of a label to the size of that box.                   *)
(*                                                                         *)
(* The loader of OverpassSource is a set of calls that stand at one of    *)
(* its awaits; the counter of the source is shared by all of them.         *)
(***************************************************************************)
EXTENDS Integers, Sequences, FiniteSets, TLC

VARIABLES
    features,           \* arena of every Feature object; the index is its identity
    levels,             \* BuildingTopologySource.levels
    resultingFeatures,  \* BuildingTopologySource.resultingFeatures
    activeLevel,        \* BuildingTopologySource.activeLevel
    nextLevelId,        \* identity of the next Level object to be constructed
    pendingTimeouts,    \* setTimeout callbacks of getFeaturesInExtent not yet run
    dataset,            \* the features the data source has yet to deliver
    scene,              \* the features of the source of the LabelLayer
    viewState,          \* frameState.viewState and frameState.size of the last frame
    cache,              \* LabelRenderer.cache
    candidates,         \* LabelRenderer.features, identities in processing order
    occupiedSpaces,     \* LabelRenderer.occupiedSpaces
    occupiedByLabels,   \* LabelRenderer.occupiedByLabels
    presentLabels,      \* the labels put into the container by the last frame
    providerCalls,      \* calls of the label provider during the last frame
    attached,           \* whether the container has a parent element
    concurrentRequests, \* OverpassSource.concurrentRequests
    loads               \* how many calls of OverpassSource.loader are where

sourceVars == <<features, levels, resultingFeatures, activeLevel, nextLevelId,
                pendingTimeouts, dataset>>

labelVars == <<scene, viewState, cache, candidates, occupiedSpaces,
               occupiedByLabels, presentLabels, providerCalls, attached>>

overpassVars == <<concurrentRequests, loads>>

vars == <<features, levels, resultingFeatures, activeLevel, nextLevelId,
          pendingTimeouts, dataset, scene, viewState, cache, candidates,
          occupiedSpaces, occupiedByLabels, presentLabels, providerCalls,
          attached, concurrentRequests, loads>>

\* OverpassSource after construction: no call of the loader so far
OverpassInit ==
    /\ concurrentRequests = 0
    /\ loads = [fetching |-> 0, reading |-> 0, settled |-> 0]

----------------------------------------------------------------------------
(* Bounds *)

MaxTagLen == 4
MaxFeatures == 3
MaxTimeouts == 1

----------------------------------------------------------------------------
(* Sequence helpers *)

SeqToSet(s) == { s[i] : i \in DOMAIN s }

RECURSIVE FlatMap(_, _)
FlatMap(F(_), s) ==
    IF s = <<>> THEN <<>> ELSE F(Head(s)) \o FlatMap(F, Tail(s))

FilterSeq(s, P(_)) == SelectSeq(s, P)

SetMin(S) ==
    CHOOSE x \in S : \A y \in S : x <= y

\* the greatest element: the least of the negated ones
SetMax(S) ==
    0 - SetMin({ 0 - x : x \in S })

Pow10(n) == 10 ^ n

----------------------------------------------------------------------------
(* parseFloat, String.split and parseLevel *)

\* NaN is held as a value no tag of the bounded length can denote
NaN == 0 - 2 ^ 30

LevelScale == Pow10(MaxTagLen - 1)

Digits == {"0", "1", "2", "3", "4", "5", "6", "7", "8", "9"}

DigitVal(c) ==
    CASE c = "0" -> 0 [] c = "1" -> 1 [] c = "2" -> 2 [] c = "3" -> 3
      [] c = "4" -> 4 [] c = "5" -> 5 [] c = "6" -> 6 [] c = "7" -> 7
      [] c = "8" -> 8 [] c = "9" -> 9

IsWhite(c) == c = " "

\* index of the first position >= i of s that does not satisfy the class
RECURSIVE SkipWhite(_, _)
SkipWhite(s, i) ==
    IF i <= Len(s) /\ IsWhite(s[i]) THEN SkipWhite(s, i + 1) ELSE i

RECURSIVE SkipDigits(_, _)
SkipDigits(s, i) ==
    IF i <= Len(s) /\ s[i] \in Digits THEN SkipDigits(s, i + 1) ELSE i

\* value of the digit string s[i..j-1] read as an integer
RECURSIVE IntOf(_, _, _)
IntOf(s, i, j) ==
    IF j <= i THEN 0 ELSE IntOf(s, i, j - 1) * 10 + DigitVal(s[j - 1])

\* value of the digit string s[i..j-1] read as a fraction, times LevelScale
RECURSIVE FracOf(_, _, _, _)
FracOf(s, i, j, unit) ==
    IF j <= i THEN 0
    ELSE DigitVal(s[i]) * (unit \div 10) + FracOf(s, i + 1, j, unit \div 10)

\* parseFloat(s): leading white space, sign, digits, fraction; the longest
\* prefix that is a decimal literal, NaN when there is none.
parseFloat(s) ==
    LET a == SkipWhite(s, 1)
        neg == a <= Len(s) /\ s[a] = "-"
        b == IF a <= Len(s) /\ s[a] \in {"-", "+"} THEN a + 1 ELSE a
        c == SkipDigits(s, b)
        dot == c <= Len(s) /\ s[c] = "."
        d == IF dot THEN SkipDigits(s, c + 1) ELSE c
        hasInt == c > b
        hasFrac == dot /\ d > c + 1
        mag == IntOf(s, b, c) * LevelScale
               + (IF hasFrac THEN FracOf(s, c + 1, d, LevelScale) ELSE 0)
    IN  IF ~hasInt /\ ~hasFrac THEN NaN
        ELSE IF neg THEN 0 - mag ELSE mag

\* s.split(';')
RECURSIVE SplitSemi(_, _, _)
SplitSemi(s, p, q) ==
    IF q > Len(s) THEN << SubSeq(s, p, Len(s)) >>
    ELSE IF s[q] = ";" THEN << SubSeq(s, p, q - 1) >> \o SplitSemi(s, q + 1, q + 1)
    ELSE SplitSemi(s, p, q + 1)

\* The separator /(?<!^)\s*(?<!\-)\-\s*/ tried at position q (1-based) of s:
\* the position after the match, 0 when there is no match.
SeparatorAt(s, q) ==
    LET j == SkipWhite(s, q)
    IN  IF /\ q > 1
           /\ j <= Len(s)
           /\ s[j] = "-"
           /\ s[j - 1] # "-"
        THEN SkipWhite(s, j + 1)
        ELSE 0

\* fromTo.split(/(?<!^)\s*(?<!\-)\-\s*/)
RECURSIVE SplitRange(_, _, _)
SplitRange(s, p, q) ==
    IF q > Len(s) THEN << SubSeq(s, p, Len(s)) >>
    ELSE LET e == SeparatorAt(s, q)
         IN  IF e = 0 THEN SplitRange(s, p, q + 1)
             ELSE << SubSeq(s, p, q - 1) >> \o SplitRange(s, e, e)

\* the value of an absent tag
Undefined == << "undefined" >>

ParseToken(fromTo) ==
    LET parts == SplitRange(fromTo, 1, 1)
    IN  IF Len(parts) = 1
        THEN << [from |-> parseFloat(parts[1]), to |-> parseFloat(parts[1])] >>
        ELSE IF Len(parts) = 2
        THEN << [from |-> parseFloat(parts[1]), to |-> parseFloat(parts[2])] >>
        ELSE <<>>

\* if (level): the tag is present and not the empty string
Truthy(level) == level # Undefined /\ level # <<>>

\* parseLevel(f) for the value of f's level tag; the undefined it returns
\* for a falsy tag is held as the empty list, which every caller treats alike
parseLevel(level) ==
    IF Truthy(level) THEN FlatMap(ParseToken, SplitSemi(level, 1, 1))
    ELSE <<>>

----------------------------------------------------------------------------
(* Number semantics of JavaScript on the fixed-point values *)

IsNaN(x) == x = NaN

\* a <= b
Leq(a, b) == ~IsNaN(a) /\ ~IsNaN(b) /\ a <= b

\* a === b on numbers
NumEq(a, b) == ~IsNaN(a) /\ ~IsNaN(b) /\ a = b

MathMin(a, b) == IF IsNaN(a) \/ IsNaN(b) THEN NaN ELSE IF a <= b THEN a ELSE b

MathMax(a, b) == IF IsNaN(a) \/ IsNaN(b) THEN NaN ELSE IF a >= b THEN a ELSE b

Plus1(a) == IF IsNaN(a) THEN NaN ELSE a + LevelScale

\* LevelsFrom with the upper bound left out
RECURSIVE LevelsFromExclusive(_, _)
LevelsFromExclusive(current, max) ==
    IF Leq(Plus1(current), max) /\ Plus1(current) # max
    THEN << Plus1(current) >> \o LevelsFromExclusive(Plus1(current), max)
    ELSE <<>>

RECURSIVE LevelsFrom(_, _)
LevelsFrom(current, max) ==
    IF Leq(Plus1(current), max)
    THEN << Plus1(current) >> \o LevelsFrom(Plus1(current), max)
    ELSE <<>>

RangeLevels(l) ==
    LET min == MathMin(l.from, l.to)
        max == MathMax(l.from, l.to)
    IN  << min >> \o LevelsFrom(min, max)

levelsOfFeature(levelTag) ==
    FlatMap(RangeLevels, parseLevel(levelTag))

----------------------------------------------------------------------------
(* Geometry kernel on grid-point sets; one length unit is ten grid steps *)

Abs(x) == IF x < 0 THEN 0 - x ELSE x

UnionOp(a, b) == a \cup b

Difference(a, b) == a \ b

Intersection(a, b) == a \cap b

\* BufferOp.bufferOp(g, d): dilation for d >= 0, erosion for d < 0
Buffer(g, d) ==
    IF d >= 0
    THEN UNION { (x - d) .. (x + d) : x \in g }
    ELSE { x \in g : \A y \in (x + d) .. (x - d) : y \in g }

\* getEnvelopeInternal().intersects(...): a null envelope meets nothing
EnvelopeIntersects(a, b) ==
    /\ a # {}
    /\ b # {}
    /\ ~(SetMax(a) < SetMin(b))
    /\ ~(SetMax(b) < SetMin(a))

RelateIntersects(a, b) == a \cap b # {}

RelateContains(a, b) == b # {} /\ b \subseteq a

\* the linear rings of an area: its boundary points
Rings(g) == { x \in g : (x - 1) \notin g \/ (x + 1) \notin g }

\* getArea(): the length covered
Area(g) == Cardinality({ x \in g : (x + 1) \in g })

----------------------------------------------------------------------------
(* Features *)

IsArea(f) == f.type \in {"Polygon", "MultiPolygon"}

EntranceKinds == {"yes", "main", "secondary", "staircase"}

Tags(level, indoor, entrance, building) ==
    [level |-> level, indoor |-> indoor, entrance |-> entrance,
     building |-> building, door |-> "", width |-> NaN, generated |-> ""]

MkFeature(type, geometry, tags) ==
    [type |-> type, geometry |-> geometry, tags |-> tags]

----------------------------------------------------------------------------
(* class Level *)

outerWallWidth == 4

NewLevel(id, levelNumber, seedGeometry) ==
    [id |-> id,
     levelNumber |-> levelNumber,
     geometry |-> seedGeometry,
     features |-> <<>>,
     wallRebuildRequired |-> TRUE,
     wall |-> {},
     unhandledEntrances |-> <<>>]

LevelIntersects(l, geometry) ==
    /\ EnvelopeIntersects(l.geometry, geometry)
    /\ RelateIntersects(l.geometry, geometry)

\* mergeIn that takes the region and leaves the members of the other behind
mergeInRegionOnly(a, other) ==
    [a EXCEPT !.geometry = UnionOp(a.geometry, other.geometry)]

mergeIn(a, other) ==
    [a EXCEPT !.geometry = UnionOp(a.geometry, other.geometry),
              !.features = a.features \o other.features]

\* Level.addFeature that starts the member list anew
LevelAddFeatureReplacing(l, i, f) ==
    [l EXCEPT
        !.features = << i >>,
        !.geometry = IF IsArea(f)
                     THEN UnionOp(l.geometry, Buffer(f.geometry, outerWallWidth))
                     ELSE l.geometry,
        !.wallRebuildRequired = TRUE,
        !.unhandledEntrances =
            IF f.type = "Point" /\ f.tags.entrance \in EntranceKinds
            THEN Append(l.unhandledEntrances, i)
            ELSE l.unhandledEntrances]

\* Level.addFeature that joins the area as it is, without the buffer
LevelAddFeatureUnbuffered(l, i, f) ==
    [l EXCEPT
        !.features = Append(l.features, i),
        !.geometry = IF IsArea(f)
                     THEN UnionOp(l.geometry, f.geometry)
                     ELSE l.geometry,
        !.wallRebuildRequired = TRUE,
        !.unhandledEntrances =
            IF f.type = "Point" /\ f.tags.entrance \in EntranceKinds
            THEN Append(l.unhandledEntrances, i)
            ELSE l.unhandledEntrances]

\* Level.addFeature(f, featureJts); i is the identity of f, f its value
LevelAddFeature(l, i, f) ==
    [l EXCEPT
        !.features = Append(l.features, i),
        !.geometry = IF IsArea(f)
                     THEN UnionOp(l.geometry, Buffer(f.geometry, outerWallWidth))
                     ELSE l.geometry,
        !.wallRebuildRequired = TRUE,
        !.unhandledEntrances =
            IF f.type = "Point" /\ f.tags.entrance \in EntranceKinds
            THEN Append(l.unhandledEntrances, i)
            ELSE l.unhandledEntrances]

\* the polygons of a geometry, Polygon or MultiPolygon: its maximal runs
RECURSIVE RunEnd(_, _)
RunEnd(g, x) == IF (x + 1) \in g THEN RunEnd(g, x + 1) ELSE x

RECURSIVE getPolygons(_)
getPolygons(g) ==
    IF g = {} THEN <<>>
    ELSE LET a == SetMin(g)
             b == RunEnd(g, a)
         IN  << a .. b >> \o getPolygons(g \ (a .. b))

RECURSIVE UnionAll(_)
UnionAll(gs) == IF gs = <<>> THEN {} ELSE Head(gs) \cup UnionAll(Tail(gs))

\* this.features of a Level as Feature values
Members(l, F) == [k \in 1 .. Len(l.features) |-> F[l.features[k]]]

\* getWallSourceAreas that takes the corridors for walled rooms as well
getWallSourceAreasWithCorridors(l, F) ==
    LET rooms == SelectSeq(Members(l, F),
                           LAMBDA f : f.tags.indoor \in {"room", "corridor"})
        PolysOf(f) == IF IsArea(f) THEN getPolygons(f.geometry) ELSE <<>>
    IN  FlatMap(PolysOf, rooms)

\* Level.getWallSourceAreas()
getWallSourceAreas(l, F) ==
    LET rooms == SelectSeq(Members(l, F), LAMBDA f : f.tags.indoor = "room")
        PolysOf(f) == IF IsArea(f) THEN getPolygons(f.geometry) ELSE <<>>
    IN  FlatMap(PolysOf, rooms)

innerWallWidth == 2

DefaultDoorWidth == 12

DoorBufferWidth == 5

IsDoor(f) ==
    f.tags.door # "" \/ f.tags.indoor = "door" \/ f.tags.entrance # ""

\* parseFloat(door.get('width')), 1.2 when that is NaN, in grid steps
DoorWidth(f) == IF f.tags.width = NaN THEN DefaultDoorWidth ELSE f.tags.width

\* the sort with the smaller areas first
RECURSIVE InsertByAreaAscending(_, _)
InsertByAreaAscending(sorted, w) ==
    IF sorted = <<>> THEN << w >>
    ELSE IF Head(sorted).area <= w.area
    THEN << Head(sorted) >> \o InsertByAreaAscending(Tail(sorted), w)
    ELSE << w >> \o sorted

RECURSIVE SortByAreaAscending(_)
SortByAreaAscending(ws) ==
    IF ws = <<>> THEN <<>>
    ELSE InsertByAreaAscending(SortByAreaAscending(SubSeq(ws, 1, Len(ws) - 1)),
                               ws[Len(ws)])

\* Array.prototype.sort((a, b) => b.area - a.area), stable
RECURSIVE InsertByArea(_, _)
InsertByArea(sorted, w) ==
    IF sorted = <<>> THEN << w >>
    ELSE IF Head(sorted).area >= w.area
    THEN << Head(sorted) >> \o InsertByArea(Tail(sorted), w)
    ELSE << w >> \o sorted

RECURSIVE SortByArea(_)
SortByArea(ws) ==
    IF ws = <<>> THEN <<>>
    ELSE InsertByArea(SortByArea(SubSeq(ws, 1, Len(ws) - 1)), ws[Len(ws)])

\* the inner-wall loop of rebuildWall over the sorted walkable areas
RECURSIVE CarveWalkable(_, _)
CarveWalkable(wallArea, ws) ==
    IF ws = <<>> THEN wallArea
    ELSE LET w == Head(ws)
             withInner ==
                 IF w.walled /\ ~RelateContains(wallArea, w.poly)
                 THEN UnionOp(wallArea, Buffer(w.poly, innerWallWidth \div 2))
                 ELSE wallArea
         IN  CarveWalkable(
                 Difference(withInner, Buffer(w.poly, 0 - (innerWallWidth \div 2))),
                 Tail(ws))

\* the wall skeleton of rebuildWall: the rings of the walled rooms and the
\* LineString features tagged as wall
WallLines(l, F) ==
    LET polys == getWallSourceAreas(l, F)
        wallFeatures == SelectSeq(Members(l, F), LAMBDA f : f.tags.indoor = "wall")
    IN  UNION { Rings(polys[k]) : k \in DOMAIN polys }
        \cup UnionAll([k \in DOMAIN wallFeatures |->
                IF wallFeatures[k].type = "LineString"
                THEN wallFeatures[k].geometry ELSE {}])

\* BufferOp.bufferOp(doorGeo, doorWidth / 2 - doorBufferWidth): the buffer
\* of a point or a line by a distance that is not positive is empty
DoorCircle(f) ==
    LET distance == DoorWidth(f) \div 2 - DoorBufferWidth
    IN  IF distance <= 0 /\ ~IsArea(f) THEN {}
        ELSE Buffer(f.geometry, distance)

\* the unwalled walkable areas of rebuildWall: the Polygon and
\* MultiPolygon members tagged area or corridor
UnwalledAreas(l, F) ==
    SelectSeq(Members(l, F),
              LAMBDA f : f.tags.indoor \in {"area", "corridor"} /\ IsArea(f))

\* doorBuffersJts of rebuildWall: the wall segments passable by doors,
\* buffered with a square cap
DoorBuffers(l, F) ==
    LET doors == SelectSeq(Members(l, F), IsDoor)
        doorCircles == UnionAll([k \in DOMAIN doors |-> DoorCircle(doors[k])])
        doorLines == Intersection(WallLines(l, F), doorCircles)
    IN  Buffer(doorLines, DoorBufferWidth)

\* the base wall area: the walled rooms buffered by the outer wall width
\* less half the inner wall width
BaseWallArea(l, F) ==
    Buffer(UnionAll(getWallSourceAreas(l, F)),
           outerWallWidth - innerWallWidth \div 2)

\* walkableAreasSeparate of rebuildWall before the sort
walkableAreasSeparate(l, F) ==
    LET polys == getWallSourceAreas(l, F)
        unwalled == UnwalledAreas(l, F)
    IN  [k \in DOMAIN polys |->
            [walled |-> TRUE, poly |-> polys[k], area |-> Area(polys[k])]]
        \o [k \in DOMAIN unwalled |->
            [walled |-> FALSE, poly |-> unwalled[k].geometry,
             area |-> Area(unwalled[k].geometry)]]

\* the wall area rebuildWall derives from the members of l
WallOf(l, F) ==
    LET ms == Members(l, F)
        wallFeatures == SelectSeq(ms, LAMBDA f : f.tags.indoor = "wall")
        doorBuffers == DoorBuffers(l, F)
        expanded == BaseWallArea(l, F)
        levelAreas == SelectSeq(ms, LAMBDA f : f.tags.indoor = "level")
        withFloor == IF levelAreas # <<>>
                     THEN UnionOp(expanded, levelAreas[1].geometry)
                     ELSE expanded
        carved == CarveWalkable(withFloor, SortByArea(walkableAreasSeparate(l, F)))
        drawn ==
            UnionAll([k \in DOMAIN wallFeatures |->
                IF IsArea(wallFeatures[k])
                THEN wallFeatures[k].geometry
                ELSE IF wallFeatures[k].type \in {"LineString", "MultiLineString"}
                THEN Buffer(wallFeatures[k].geometry, innerWallWidth \div 2)
                ELSE {}])
    IN  Difference(UnionOp(carved, drawn), doorBuffers)

\* cutWallFromAreas that clips the rooms only
cutWallFromRooms(l, F, wallArea) ==
    [i \in DOMAIN F |->
        IF i \in SeqToSet(l.features) /\ IsArea(F[i]) /\ F[i].tags.indoor = "room"
        THEN [F[i] EXCEPT !.geometry = Difference(F[i].geometry, wallArea)]
        ELSE F[i]]

\* Level.cutWallFromAreas(wallAreaJts): the arena after clipping l's areas
cutWallFromAreas(l, F, wallArea) ==
    [i \in DOMAIN F |->
        IF i \in SeqToSet(l.features) /\ IsArea(F[i])
        THEN [F[i] EXCEPT !.geometry = Difference(F[i].geometry, wallArea)]
        ELSE F[i]]

\* rebuildWall without the early return for a clean Level
rebuildWallAlways(l, F) ==
    LET wallArea == WallOf(l, F)
    IN  [level |-> [l EXCEPT !.wall = wallArea,
                             !.wallRebuildRequired = FALSE],
         features |-> cutWallFromAreas(l, F, wallArea)]

\* Level.rebuildWall(): the Level and the arena afterwards
rebuildWall(l, F) ==
    IF ~l.wallRebuildRequired
    THEN [level |-> l, features |-> F]
    ELSE LET wallArea == WallOf(l, F)
         IN  [level |-> [l EXCEPT !.wall = wallArea,
                                  !.wallRebuildRequired = FALSE],
              features |-> cutWallFromAreas(l, F, wallArea)]

\* String(n) of a number
DigitChar(d) ==
    CASE d = 0 -> "0" [] d = 1 -> "1" [] d = 2 -> "2" [] d = 3 -> "3"
      [] d = 4 -> "4" [] d = 5 -> "5" [] d = 6 -> "6" [] d = 7 -> "7"
      [] d = 8 -> "8" [] d = 9 -> "9"

RECURSIVE IntToStr(_)
IntToStr(n) ==
    IF n < 10 THEN << DigitChar(n) >>
    ELSE IntToStr(n \div 10) \o << DigitChar(n % 10) >>

RECURSIVE FracToStr(_, _)
FracToStr(r, unit) ==
    IF r = 0 THEN <<>>
    ELSE << DigitChar(r \div (unit \div 10)) >>
         \o FracToStr(r % (unit \div 10), unit \div 10)

NumToStr(v) ==
    IF IsNaN(v) THEN << "N", "a", "N" >>
    ELSE LET m == Abs(v)
             frac == m % LevelScale
         IN  (IF v < 0 THEN << "-" >> ELSE <<>>)
             \o IntToStr(m \div LevelScale)
             \o (IF frac = 0 THEN <<>>
                 ELSE << "." >> \o FracToStr(frac, LevelScale))

WalkwayReach == 10

EntranceCircle == 5

WalkwayLength == 10

\* the walkway generateEntranceWalkways makes for entrance e at the first
\* walled area that yields a crossing, <<>> when there is none
RECURSIVE WalkwayFor(_, _, _)
WalkwayFor(l, e, walledAreas) ==
    IF walledAreas = <<>> THEN <<>>
    ELSE LET walledArea == Head(walledAreas)
             p == SetMin(e.geometry)
             ring == Rings(walledArea)
             isClose == \E x \in ring : Abs(x - p) < WalkwayReach
             coords == { x \in ring : Abs(x - p) < EntranceCircle }
         IN  IF isClose /\ coords # {}
             THEN LET center == (SetMin(coords) + SetMax(coords)) \div 2
                      out == center + WalkwayLength
                      outside == IF out \in walledArea
                                 THEN center + 2 * (center - out)
                                 ELSE out
                      lo == IF outside < center THEN outside ELSE center
                      hi == IF outside < center THEN center ELSE outside
                  IN  << [type |-> "LineString",
                          geometry |-> lo .. hi,
                          tags |-> [level |-> NumToStr(l.levelNumber),
                                    indoor |-> "",
                                    entrance |-> e.tags.entrance,
                                    building |-> "",
                                    door |-> "",
                                    width |-> NaN,
                                    generated |-> "walkway"]] >>
             ELSE WalkwayFor(l, e, Tail(walledAreas))

\* Level.generateEntranceWalkways(): the Level, the arena and the walkways
generateEntranceWalkways(l, F) ==
    LET walledAreas == getWallSourceAreas(l, F)
        made == FlatMap(LAMBDA i : WalkwayFor(l, F[i], walledAreas),
                        l.unhandledEntrances)
        ids == [k \in 1 .. Len(made) |-> Len(F) + k]
    IN  IF l.unhandledEntrances = <<>>
        THEN [level |-> l, features |-> F, walkways |-> <<>>]
        ELSE [level |-> [l EXCEPT !.features = l.features \o ids,
                                  !.unhandledEntrances = <<>>],
              features |-> F \o made,
              walkways |-> ids]

----------------------------------------------------------------------------
(* class BuildingTopologySource *)

FeatureItem(i) == [kind |-> "feature", id |-> i]

WallItem(levelId) == [kind |-> "wall", id |-> levelId]

\* Intersecting without the comparison of the level number
IntersectingAnyNumber(lv, level, geo) ==
    { k \in DOMAIN lv : LevelIntersects(lv[k], geo) }

\* the positions in lv of the Levels getLevels finds for (level, geo)
Intersecting(lv, level, geo) ==
    { k \in DOMAIN lv : NumEq(lv[k].levelNumber, level)
                        /\ LevelIntersects(lv[k], geo) }

RECURSIVE MergeAll(_, _, _)
MergeAll(lv, acc, ks) ==
    IF ks = {} THEN acc
    ELSE LET k == SetMin(ks)
         IN  MergeAll(lv, mergeIn(acc, lv[k]), ks \ {k})

\* the merge that leaves the walls of the folded Levels in the result set
KeepWalls(rf, lv, obsolete) == rf

\* this.resultingFeatures.removeFeature(obsolteLevel.wall) for the Levels
\* at the positions obsolete of lv
RemoveWalls(rf, lv, obsolete) == rf \ { WallItem(lv[k].id) : k \in obsolete }

\* one round of the loop of addFeature: feature i (value f) at levelNumber
AddAtLevel(st, i, f, levelNumber) ==
    LET found == Intersecting(st.levels, levelNumber, f.geometry)
    IN  IF found = {}
        THEN \* getLevels constructs a Level, addFeature attaches to it
             [levels |-> Append(st.levels,
                                LevelAddFeature(
                                    NewLevel(st.nextLevelId, levelNumber, f.geometry),
                                    i, f)),
              resultingFeatures |->
                  st.resultingFeatures \cup {WallItem(st.nextLevelId)},
              nextLevelId |-> st.nextLevelId + 1]
        ELSE LET first == SetMin(found)
                 others == found \ {first}
                 merged == MergeAll(st.levels, st.levels[first], others)
                 kept == { k \in DOMAIN st.levels : k \notin others }
                 replaced == [st.levels EXCEPT ![first] = LevelAddFeature(merged, i, f)]
             IN  [levels |-> SelectSeq(
                                 [k \in DOMAIN replaced |->
                                     IF k \in kept THEN replaced[k]
                                     ELSE [replaced[k] EXCEPT !.id = 0]],
                                 LAMBDA l : l.id # 0),
                  resultingFeatures |->
                      RemoveWalls(st.resultingFeatures, st.levels, others),
                  nextLevelId |-> st.nextLevelId]

RECURSIVE AddAtLevels(_, _, _, _)
AddAtLevels(st, i, f, levelNumbers) ==
    IF levelNumbers = <<>> THEN st
    ELSE IF Len(levelNumbers) = 1 THEN AddAtLevel(st, i, f, levelNumbers[1])
    ELSE \* the loop over the first half of the list, then over the second
         LET half == Len(levelNumbers) \div 2
             mid == AddAtLevels(st, i, f, SubSeq(levelNumbers, 1, half))
         IN  IF mid.nextLevelId >= st.nextLevelId
             THEN AddAtLevels(mid, i, f,
                              SubSeq(levelNumbers, half + 1, Len(levelNumbers)))
             ELSE mid

\* BuildingTopologySource.addFeature(feature) on the source state st, the
\* Feature object getting identity i
addFeature(st, i, f) ==
    LET routed == AddAtLevels(st, i, f, levelsOfFeature(f.tags.level))
    IN  [routed EXCEPT !.resultingFeatures = @ \cup {FeatureItem(i)}]

SourceState ==
    [levels |-> levels, resultingFeatures |-> resultingFeatures,
     nextLevelId |-> nextLevelId]

\* the features passed to addFeature so far (walkways are made, not passed)
Added == SelectSeq(features, LAMBDA g : g.tags.generated = "")

\* the ADDFEATURE listener passes each feature of the loader once
AddFeature(f) ==
    /\ Len(Added) < MaxFeatures
    /\ f \in dataset
    /\ \E after \in { addFeature(SourceState, Len(features) + 1, f) } :
           /\ features' = Append(features, f)
           /\ levels' = after.levels
           /\ resultingFeatures' = after.resultingFeatures
           /\ nextLevelId' = after.nextLevelId
    /\ dataset' = dataset \ {f}
    /\ UNCHANGED <<activeLevel, pendingTimeouts>>
    /\ UNCHANGED labelVars
    /\ UNCHANGED overpassVars

Budget == 100

\* extentJts.intersects(level.geometry.getEnvelopeInternal())
LevelInView(l, extent, active) ==
    /\ NumEq(l.levelNumber, active)
    /\ EnvelopeIntersects(extent, l.geometry)

\* the loop of getFeaturesInExtent without the check of the elapsed time
RECURSIVE RebuildPassNoBudget(_, _, _, _, _)
RebuildPassNoBudget(ps, k, extent, active, dur) ==
    IF k > Len(ps.levels) THEN ps
    ELSE
      LET l == ps.levels[k]
          inView == LevelInView(l, extent, active)
          did == inView /\ l.wallRebuildRequired
          rb == IF did THEN rebuildWall(l, ps.features)
                ELSE [level |-> l, features |-> ps.features]
          ew == IF inView /\ rb.level.unhandledEntrances # <<>>
                THEN generateEntranceWalkways(rb.level, rb.features)
                ELSE [level |-> rb.level, features |-> rb.features,
                      walkways |-> <<>>]
      IN  RebuildPassNoBudget(
              [ps EXCEPT
                  !.levels = [@ EXCEPT ![k] = ew.level],
                  !.features = ew.features,
                  !.resultingFeatures =
                      @ \cup { FeatureItem(w) : w \in SeqToSet(ew.walkways) },
                  !.rebuilt = IF did THEN Append(@, l.id) ELSE @],
              k + 1, extent, active, dur)

\* the loop of getFeaturesInExtent from position k on; dur[j] is the time
\* the clock advances during the j-th rebuildWall call of the pass, dur[0]
\* the time it advances between the reading of start and the first reading
\* of elapsed
RECURSIVE RebuildPass(_, _, _, _, _)
RebuildPass(ps, k, extent, active, dur) ==
    IF k > Len(ps.levels) THEN ps
    ELSE
      LET l == ps.levels[k]
          inView == LevelInView(l, extent, active)
      IN  IF inView /\ l.wallRebuildRequired /\ ~(dur[0] + ps.elapsed < Budget)
          THEN [ps EXCEPT !.aborted = TRUE, !.abortedAt = k]
          ELSE
            LET rb == IF inView /\ l.wallRebuildRequired
                      THEN rebuildWall(l, ps.features)
                      ELSE [level |-> l, features |-> ps.features]
                did == inView /\ l.wallRebuildRequired
                ew == IF inView /\ rb.level.unhandledEntrances # <<>>
                      THEN generateEntranceWalkways(rb.level, rb.features)
                      ELSE [level |-> rb.level, features |-> rb.features,
                            walkways |-> <<>>]
            IN  RebuildPass(
                    [ps EXCEPT
                        !.levels = [@ EXCEPT ![k] = ew.level],
                        !.features = ew.features,
                        !.resultingFeatures =
                            @ \cup { FeatureItem(w) : w \in SeqToSet(ew.walkways) },
                        !.elapsed = IF did THEN @ + dur[Len(ps.rebuilt) + 1] ELSE @,
                        !.rebuilt = IF did THEN Append(@, l.id) ELSE @],
                    k + 1, extent, active, dur)

\* a rebuild that fits twice into the budget
FastRebuild == Budget \div 2

\* a rebuild that alone uses up the budget
SlowRebuild == Budget + Budget \div 5

Durations == {FastRebuild, SlowRebuild}

\* the clock has not moved when the loop reaches its first dirty Level, or
\* it has moved by the budget
Delays == {0, Budget}

\* a pass makes no rebuild after the clock has reached the budget
MaxRebuildsPerPass == (Budget + FastRebuild - 1) \div FastRebuild

\* the clock readings that differ in effect: rebuilds after a slow one or
\* after a late start do not happen
Timings ==
    { d \in [0 .. MaxRebuildsPerPass -> Durations \cup Delays] :
        /\ d[0] \in Delays
        /\ \A j \in 1 .. MaxRebuildsPerPass : d[j] \in Durations
        /\ d[0] # 0 => d[1] = SlowRebuild
        /\ \A j \in 1 .. MaxRebuildsPerPass - 1 :
               d[j] = SlowRebuild => d[j + 1] = SlowRebuild }

ExtentAll == 0 .. 70

ExtentLeft == 0 .. 20

Extents == {ExtentAll, ExtentLeft}

PassStart ==
    [levels |-> levels, features |-> features,
     resultingFeatures |-> resultingFeatures,
     elapsed |-> 0, aborted |-> FALSE, abortedAt |-> 0, rebuilt |-> <<>>]

GetFeaturesInExtent(extent, dur) ==
    /\ pendingTimeouts < MaxTimeouts
    /\ \E ps \in { RebuildPass(PassStart, 1, extent, activeLevel, dur) } :
           /\ levels' = ps.levels
           /\ features' = ps.features
           /\ resultingFeatures' = ps.resultingFeatures
           /\ pendingTimeouts' = IF ps.aborted THEN pendingTimeouts + 1
                                 ELSE pendingTimeouts
    /\ UNCHANGED <<activeLevel, nextLevelId, dataset>>
    /\ UNCHANGED labelVars
    /\ UNCHANGED overpassVars

ActiveLevels == {0, LevelScale}

SetActiveLevel(n) ==
    /\ n # activeLevel
    /\ activeLevel' = n
    /\ UNCHANGED <<features, levels, resultingFeatures, nextLevelId,
                   pendingTimeouts, dataset>>
    /\ UNCHANGED labelVars
    /\ UNCHANGED overpassVars

\* the callback of setTimeout(() => this.changed(), 500)
TimeoutFires ==
    /\ pendingTimeouts > 0
    /\ pendingTimeouts' = pendingTimeouts - 1
    /\ UNCHANGED <<features, levels, resultingFeatures, activeLevel,
                   nextLevelId, dataset>>
    /\ UNCHANGED labelVars
    /\ UNCHANGED overpassVars

----------------------------------------------------------------------------
(* Screen geometry of the label placement *)

Min2(a, b) == IF a <= b THEN a ELSE b

Max2(a, b) == IF a >= b THEN a ELSE b

\* an axis-parallel rectangle; a point is a rectangle without extent
Rect(minx, maxx, miny, maxy) ==
    [minx |-> minx, maxx |-> maxx, miny |-> miny, maxy |-> maxy]

RectWidth(r) == r.maxx - r.minx

RectHeight(r) == r.maxy - r.miny

RectArea(r) == RectWidth(r) * RectHeight(r)

\* getEnvelopeInternal().intersects(...) && intersects(...)
RectIntersects(a, b) ==
    /\ a.minx <= b.maxx /\ b.minx <= a.maxx
    /\ a.miny <= b.maxy /\ b.miny <= a.maxy

\* screenGeometryJts.contains(rangeRectsJts)
RectContains(a, b) ==
    /\ a.minx <= b.minx /\ b.maxx <= a.maxx
    /\ a.miny <= b.miny /\ b.maxy <= a.maxy

\* intersection(...).getEnvelopeInternal().getWidth(), 0 when empty
IntersectionWidth(a, b) ==
    IF RectIntersects(a, b)
    THEN Min2(a.maxx, b.maxx) - Max2(a.minx, b.minx)
    ELSE 0

\* AffineTransformation.translationInstance(dx, dy).transform(r)
Translate(r, dx, dy) ==
    Rect(r.minx + dx, r.maxx + dx, r.miny + dy, r.maxy + dy)

\* getRenderTransform without rotation: pixel = size / 2 + (x - center) / resolution,
\* the y axis pointing down; v.scale is 1 / resolution
ApplyX(v, x) == v.size[1] \div 2 + v.scale * (x - v.center[1])

ApplyY(v, y) == v.size[2] \div 2 - v.scale * (y - v.center[2])

\* apply(transform, coordinate)
ApplyPoint(v, p) == << ApplyX(v, p[1]), ApplyY(v, p[2]) >>

\* geometry.applyTransform(...) on a rectangle
ApplyRect(v, r) ==
    Rect(ApplyX(v, r.minx), ApplyX(v, r.maxx), ApplyY(v, r.maxy), ApplyY(v, r.miny))

\* frameState.extent: what the frame shows, in the coordinates of the features
FrameExtent(v) ==
    Rect(v.center[1] - (v.size[1] \div 2) \div v.scale,
         v.center[1] + (v.size[1] \div 2) \div v.scale,
         v.center[2] - (v.size[2] \div 2) \div v.scale,
         v.center[2] + (v.size[2] \div 2) \div v.scale)

\* polylabel(...) of a rectangle: its centre
polylabel(r) == << (r.minx + r.maxx) \div 2, (r.miny + r.maxy) \div 2 >>

----------------------------------------------------------------------------
(* The label box: the browser's layout of a label *)

\* label.style.width not set
Auto == 0 - 1

\* the width of the text boxes of content c in a label of CSS width w: the
\* text is broken into lines no wider than w, a word is never broken
TextWidth(c, w) ==
    IF w = Auto THEN c.natural ELSE Min2(c.natural, Max2(w, c.word))

TextLines(c, w) ==
    (c.natural + TextWidth(c, w) - 1) \div TextWidth(c, w)

TextHeight(c, w) == TextLines(c, w) * c.lineHeight

\* label.scrollWidth
scrollWidth(c, w) == IF w = Auto THEN c.natural ELSE Max2(w, c.word)

\* label.style.width = `${w}px`: a negative length is not a valid value and
\* leaves the property as it was
SetStyleWidth(old, w) == IF w >= 0 THEN w ELSE old

\* getRectsJts(centerAroundJts, element, range): the envelope of the text
\* boxes moved so that its centre is the given point
getRectsJts(center, c, w) ==
    LET tw == TextWidth(c, w)
        th == TextHeight(c, w)
    IN  Rect(center[1] - tw \div 2, center[1] - tw \div 2 + tw,
             center[2] - th \div 2, center[2] - th \div 2 + th)

\* label.childNodes.length === 0
NoContents(c) == c.natural = 0

----------------------------------------------------------------------------
(* LabelLayer and the label provider *)

IsAreaType(f) == f.type \in {"Polygon", "MultiPolygon"}

\* getArea() of a Polygon or MultiPolygon
GeometryArea(f) ==
    LET RECURSIVE Sum(_)
        Sum(k) == IF k = 0 THEN 0 ELSE RectArea(f.polys[k]) + Sum(k - 1)
    IN  Sum(Len(f.polys))

\* renderOrder with the areas compared the other way round
renderOrderSmallerFirst(sc, i, j) ==
    LET g1Area == IsAreaType(sc[i])
        g2Area == IsAreaType(sc[j])
    IN  IF g1Area /\ ~g2Area THEN 0 - 1
        ELSE IF g2Area /\ ~g1Area THEN 1
        ELSE IF g1Area /\ g2Area
        THEN GeometryArea(sc[i]) - GeometryArea(sc[j])
        ELSE i - j

\* LabelLayer.renderOrder(f1, f2) for the features of identities i and j;
\* defaultOrder compares the identities
renderOrder(sc, i, j) ==
    LET g1Area == IsAreaType(sc[i])
        g2Area == IsAreaType(sc[j])
    IN  IF g1Area /\ ~g2Area THEN 0 - 1
        ELSE IF g2Area /\ ~g1Area THEN 1
        ELSE IF g1Area /\ g2Area
        THEN GeometryArea(sc[j]) - GeometryArea(sc[i])
        ELSE i - j

\* Array.prototype.sort(compare), stable: x goes behind the elements that do
\* not compare greater than it
RECURSIVE InsertInOrder(_, _, _)
InsertInOrder(sc, sorted, x) ==
    IF sorted = <<>> THEN << x >>
    ELSE IF renderOrder(sc, Head(sorted), x) <= 0
    THEN << Head(sorted) >> \o InsertInOrder(sc, Tail(sorted), x)
    ELSE << x >> \o sorted

RECURSIVE SortFeatures(_, _)
SortFeatures(sc, ids) ==
    IF ids = <<>> THEN <<>>
    ELSE InsertInOrder(sc, SortFeatures(sc, SubSeq(ids, 1, Len(ids) - 1)),
                       ids[Len(ids)])

\* the envelope of the geometry of f
FeatureExtent(f) ==
    Rect(SetMin({ f.polys[k].minx : k \in DOMAIN f.polys }),
         SetMax({ f.polys[k].maxx : k \in DOMAIN f.polys }),
         SetMin({ f.polys[k].miny : k \in DOMAIN f.polys }),
         SetMax({ f.polys[k].maxy : k \in DOMAIN f.polys }))

\* LabelRenderer.prepareFrame: the features in the extent that pass the
\* filter of the layer (every feature does), sorted by renderOrder
prepareFrame(sc, v) ==
    SortFeatures(sc,
        SelectSeq([k \in DOMAIN sc |-> k],
                  LAMBDA k : RectIntersects(FeatureExtent(sc[k]), FrameExtent(v))))

\* the label provider: variant k of the label of f; "default" is variant 1
\* and every variant but the last names the next one as its fallback
Variant(f, k) == f.label[k]

fallbackVariant(f, k) == IF k < Len(f.label) THEN k + 1 ELSE 0

----------------------------------------------------------------------------
(* class LabelRenderer *)

\* the zoom of a view is held in hundredths of a zoom level
ZoomUnit == 100

\* 2 * Math.floor(zoom) + (Math.ceil(zoom * 10) % 10 >= 5 ? 1 : 0), the
\* zoom given in hundredths
resolutionCacheKey(zoom) ==
    2 * (zoom \div ZoomUnit)
    + (IF ((zoom * 10 + ZoomUnit - 1) \div ZoomUnit) % 10 >= 5 THEN 1 ELSE 0)

\* cached.labels[key]: never assigned, null, or a LabelParam
UndefinedSlot ==
    [kind |-> "undefined", shape |-> Rect(0, 0, 0, 0), width |-> 0, height |-> 0]

NullSlot ==
    [kind |-> "null", shape |-> Rect(0, 0, 0, 0), width |-> 0, height |-> 0]

LabelSlot(shape, width, height) ==
    [kind |-> "label", shape |-> shape, width |-> width, height |-> height]

\* this.cache.get(feature) of a feature that has no entry
NoEntry(keys) ==
    [present |-> FALSE, featureRevision |-> 0, geometryRevision |-> 0,
     inacessibilityPole |-> <<>>, labels |-> [k \in keys |-> UndefinedSlot]]

\* the entry getCacheEntry creates
CreatedEntry(f, keys) ==
    [present |-> TRUE,
     featureRevision |-> f.featureRevision,
     geometryRevision |-> f.geometryRevision,
     inacessibilityPole |-> <<>>,
     labels |-> [k \in keys |-> UndefinedSlot]]

\* getCacheEntry that compares the revision of the geometry only
getCacheEntryByGeometryRevision(ch, i, f) ==
    IF ch[i].present /\ ch[i].geometryRevision = f.geometryRevision
    THEN ch
    ELSE [ch EXCEPT ![i] = CreatedEntry(f, DOMAIN ch[i].labels)]

\* LabelRenderer.getCacheEntry(feature): the cache afterwards, the entry
\* returned is the one of i
getCacheEntry(ch, i, f) ==
    IF /\ ch[i].present
       /\ ch[i].featureRevision = f.featureRevision
       /\ ch[i].geometryRevision = f.geometryRevision
    THEN ch
    ELSE [ch EXCEPT ![i] = CreatedEntry(f, DOMAIN ch[i].labels)]

\* LabelRenderer.intersectsOccupiedSpaces(geo, checkOnlyLabels)
intersectsOccupiedSpaces(byLabels, spaces, geo, checkOnlyLabels) ==
    \/ \E k \in DOMAIN byLabels : RectIntersects(byLabels[k], geo)
    \/ /\ ~checkOnlyLabels
       /\ \E k \in DOMAIN spaces : RectIntersects(spaces[k], geo)

\* tryOccupy that takes the place without looking
tryOccupyAlways(byLabels, spaces, center, labelParams, checkOnlyLabels) ==
    [ok |-> TRUE,
     labelGeom |-> Translate(labelParams.shape, center[1], center[2])]

\* LabelRenderer.tryOccupy(center, labelParams, checkOnlyLabels): whether
\* the place was free, and the footprint that is pushed when it was
tryOccupy(byLabels, spaces, center, labelParams, checkOnlyLabels) ==
    LET labelGeom == Translate(labelParams.shape, center[1], center[2])
    IN  [ok |-> ~intersectsOccupiedSpaces(byLabels, spaces, labelGeom,
                                          checkOnlyLabels),
         labelGeom |-> labelGeom]

MaxPointLabelWidth == 500

WidthStep == 50

MinLabelWidth == 30

\* newLabelRatio > 2.3, as RatioNum / RatioDen
RatioNum == 23

RatioDen == 10

Iterations == 10

\* the polygon that renderFeature labels: the first polygon of the greatest
\* area of a MultiPolygon (0 when none has an area)
RECURSIVE BiggestPolygon(_, _, _, _)
BiggestPolygon(polys, k, biggestArea, best) ==
    IF k > Len(polys) THEN best
    ELSE IF RectArea(polys[k]) > biggestArea
    THEN BiggestPolygon(polys, k + 1, RectArea(polys[k]), k)
    ELSE BiggestPolygon(polys, k + 1, biggestArea, best)

\* geometry instanceof Point || geometry instanceof Polygon, after the
\* choice of the biggest polygon
Supported(f) ==
    \/ f.type \in {"Point", "Polygon"}
    \/ f.type = "MultiPolygon" /\ BiggestPolygon(f.polys, 1, 0, 0) # 0

LabelledGeometry(f) ==
    IF f.type = "MultiPolygon"
    THEN f.polys[BiggestPolygon(f.polys, 1, 0, 0)]
    ELSE f.polys[1]

\* the for loop of the polygon branch with twice the iterations
RECURSIVE PolygonShrinkLongLoop(_, _, _)
PolygonShrinkLongLoop(x, sv, i) ==
    IF i = 2 * Iterations THEN [sv EXCEPT !.iterations = i]
    ELSE
      LET rect == getRectsJts(x.center, x.content, sv.styleWidth)
      IN  IF /\ ~x.content.allowExtendingGeometry
             /\ \/ scrollWidth(x.content, sv.styleWidth) - 2 > sv.maxWidth
                \/ RectWidth(rect) = 0
                \/ RectHeight(rect) > RectHeight(x.screenGeometry)
          THEN [sv EXCEPT !.slot = NullSlot, !.iterations = i + 1]
          ELSE IF \/ x.content.allowExtendingGeometry
                  \/ /\ RectContains(x.screenGeometry, rect)
                     /\ ~intersectsOccupiedSpaces(x.byLabels, x.spaces, rect, FALSE)
          THEN [sv EXCEPT !.slot =
                   LabelSlot(Translate(rect, 0 - x.center[1], 0 - x.center[2]),
                             sv.maxWidth, RectHeight(rect)),
                   !.iterations = i + 1]
          ELSE LET w == Min2(sv.maxWidth - 1,
                             IntersectionWidth(x.screenGeometry, rect) - 1)
               IN  PolygonShrinkLongLoop(x,
                       [sv EXCEPT !.maxWidth = w,
                                  !.styleWidth = SetStyleWidth(sv.styleWidth, w)],
                       i + 1)

\* the for loop of the polygon branch from iteration i on; x holds the
\* feature, the variant, the centre and the occupancy; sv.iterations counts
\* the runs of the loop body
RECURSIVE PolygonShrink(_, _, _)
PolygonShrink(x, sv, i) ==
    IF i = Iterations THEN [sv EXCEPT !.iterations = i]
    ELSE
      LET rect == getRectsJts(x.center, x.content, sv.styleWidth)
      IN  IF /\ ~x.content.allowExtendingGeometry
             /\ \/ scrollWidth(x.content, sv.styleWidth) - 2 > sv.maxWidth
                \/ RectWidth(rect) = 0
                \/ RectHeight(rect) > RectHeight(x.screenGeometry)
          THEN [sv EXCEPT !.slot = NullSlot, !.iterations = i + 1]
          ELSE IF \/ x.content.allowExtendingGeometry
                  \/ /\ RectContains(x.screenGeometry, rect)
                     /\ ~intersectsOccupiedSpaces(x.byLabels, x.spaces, rect, FALSE)
          THEN [sv EXCEPT !.slot =
                   LabelSlot(Translate(rect, 0 - x.center[1], 0 - x.center[2]),
                             sv.maxWidth, RectHeight(rect)),
                   !.iterations = i + 1]
          ELSE LET w == Min2(sv.maxWidth - 1,
                             IntersectionWidth(x.screenGeometry, rect) - 1)
               IN  PolygonShrink(x,
                       [sv EXCEPT !.maxWidth = w,
                                  !.styleWidth = SetStyleWidth(sv.styleWidth, w)],
                       i + 1)

\* the while loop of the polygon branch from variant k on (0: no variant)
RECURSIVE PolygonVariants(_, _, _)
PolygonVariants(x, st, k) ==
    IF k = 0 THEN st
    ELSE
      LET c == Variant(x.feature, k)
          next == fallbackVariant(x.feature, k)
          sw == SetStyleWidth(st.styleWidth, st.maxWidth)
          called == [st EXCEPT !.calls = @ + 1, !.styleWidth = sw,
                               !.iterations = Append(@, 0)]
      IN  IF c.throws
          THEN [called EXCEPT !.threw = TRUE]
          ELSE IF NoContents(c)
          THEN [called EXCEPT !.slot = NullSlot]
          ELSE IF ~c.allowExtendingGeometry /\ scrollWidth(c, sw) > st.maxWidth
          THEN PolygonVariants(x, [called EXCEPT !.slot = NullSlot], next)
          ELSE
            LET pole == IF st.pole # <<>> THEN st.pole
                        ELSE polylabel(x.geometry)
                center == ApplyPoint(x.view, pole)
                sv == PolygonShrink(
                          [x EXCEPT !.center = center, !.content = c],
                          [slot |-> st.slot, maxWidth |-> st.maxWidth,
                           styleWidth |-> sw, iterations |-> 0],
                          0)
                t == tryOccupy(x.byLabels, x.spaces, center, sv.slot, FALSE)
            IN  IF sv.slot.kind = "label" /\ t.ok
                THEN [called EXCEPT !.slot = sv.slot, !.pole = pole,
                                    !.maxWidth = sv.maxWidth,
                                    !.styleWidth = sv.styleWidth,
                                    !.iterations = Append(st.iterations, sv.iterations),
                                    !.placed = TRUE, !.labelGeom = t.labelGeom]
                ELSE PolygonVariants(x,
                         [called EXCEPT !.slot = NullSlot, !.pole = pole,
                                        !.maxWidth = sv.maxWidth,
                                        !.styleWidth = sv.styleWidth,
                                        !.iterations = Append(st.iterations, sv.iterations)],
                         next)

\* the for loop of the point branch from iteration i on
RECURSIVE PointShrink(_, _, _)
PointShrink(x, pv, i) ==
    IF i = Iterations THEN [pv EXCEPT !.iterations = i]
    ELSE
      LET rect == getRectsJts(x.center, x.content, pv.styleWidth)
          free == \/ x.content.allowExtendingGeometry
                  \/ ~intersectsOccupiedSpaces(x.byLabels, x.spaces, rect, FALSE)
          old == pv.slot
          hasOld == old.kind = "label"
          better == /\ RectWidth(rect) * old.height < old.width * RectHeight(rect)
                    /\ RatioDen * RectWidth(rect) > RatioNum * RectHeight(rect)
          takes == free /\ (~hasOld \/ better)
          slot1 == IF takes
                   THEN LabelSlot(Translate(rect, 0 - x.center[1], 0 - x.center[2]),
                                  RectWidth(rect), RectHeight(rect))
                   ELSE old
          w == RectWidth(rect) - WidthStep
      IN  IF free /\ ~takes
          THEN [pv EXCEPT !.iterations = i + 1]
          ELSE IF w < MinLabelWidth /\ slot1.kind = "undefined"
          THEN [pv EXCEPT !.slot = NullSlot, !.maxWidth = w, !.returned = TRUE,
                          !.iterations = i + 1]
          ELSE PointShrink(x,
                   [pv EXCEPT !.slot = slot1, !.maxWidth = w,
                              !.styleWidth = SetStyleWidth(pv.styleWidth, w)],
                   i + 1)

\* the while loop of the point branch from variant k on (0: no variant)
RECURSIVE PointVariants(_, _, _)
PointVariants(x, st, k) ==
    IF k = 0 THEN st
    ELSE
      LET c == Variant(x.feature, k)
          next == fallbackVariant(x.feature, k)
          called == [st EXCEPT !.calls = @ + 1, !.iterations = Append(@, 0)]
      IN  IF c.throws
          THEN [called EXCEPT !.threw = TRUE]
          ELSE IF NoContents(c)
          THEN [called EXCEPT !.slot = NullSlot]
          ELSE IF ~c.allowExtendingGeometry
                  /\ scrollWidth(c, st.styleWidth) > st.maxWidth
          THEN PointVariants(x, [called EXCEPT !.slot = NullSlot], next)
          ELSE
            LET pv == PointShrink(
                          [x EXCEPT !.content = c],
                          [slot |-> st.slot, maxWidth |-> st.maxWidth,
                           styleWidth |-> st.styleWidth, returned |-> FALSE,
                           iterations |-> 0],
                          0)
                t == tryOccupy(x.byLabels, x.spaces, x.center, pv.slot, FALSE)
            IN  IF pv.returned
                THEN [called EXCEPT !.slot = NullSlot, !.maxWidth = pv.maxWidth,
                                    !.styleWidth = pv.styleWidth,
                                    !.iterations = Append(st.iterations, pv.iterations)]
                ELSE IF pv.slot.kind = "label" /\ t.ok
                THEN [called EXCEPT !.slot = pv.slot,
                                    !.maxWidth = pv.maxWidth,
                                    !.styleWidth = pv.styleWidth,
                                    !.iterations = Append(st.iterations, pv.iterations),
                                    !.placed = TRUE, !.labelGeom = t.labelGeom]
                ELSE PointVariants(x,
                         [called EXCEPT !.slot = NullSlot,
                                        !.maxWidth = pv.maxWidth,
                                        !.styleWidth = pv.styleWidth,
                                        !.iterations = Append(st.iterations, pv.iterations)],
                         next)

\* the placement search of renderFeature for a feature without a usable
\* cache slot: the slot, the pole, the calls of the provider, the runs of
\* the for loop after each call and the label
Search(f, entry, key, v, byLabels, spaces) ==
    LET geometry == LabelledGeometry(f)
        start == [slot |-> entry.labels[key], pole |-> entry.inacessibilityPole,
                  maxWidth |-> 0, styleWidth |-> Auto, calls |-> 0,
                  iterations |-> <<>>, threw |-> FALSE,
                  placed |-> FALSE, labelGeom |-> Rect(0, 0, 0, 0)]
        x == [feature |-> f, geometry |-> geometry, view |-> v,
              screenGeometry |-> ApplyRect(v, geometry),
              center |-> <<0, 0>>, content |-> Variant(f, 1),
              byLabels |-> byLabels, spaces |-> spaces]
    IN  IF f.type = "Point"
        THEN LET p == << geometry.minx, geometry.miny >>
             IN  PointVariants(
                     [x EXCEPT !.center = ApplyPoint(v, p)],
                     [start EXCEPT !.pole = p, !.maxWidth = MaxPointLabelWidth],
                     1)
        ELSE LET maxWidth == RectWidth(ApplyRect(v, geometry))
             IN  IF maxWidth < MinLabelWidth
                 THEN [start EXCEPT !.slot = NullSlot, !.maxWidth = maxWidth]
                 ELSE PolygonVariants(x, [start EXCEPT !.maxWidth = maxWidth], 1)

\* the cached centre taken as it is, without the transform of the frame
CachedCenterUntransformed(v, pole) == pole

\* screenGeometryCenter of a cached placement: apply(transform, [...pole])
CachedCenter(v, pole) == ApplyPoint(v, pole)

\* the mark that nothing fits taken for no mark
KnownNotToFitNever(slot) == FALSE

\* cached.labels[resolutionCacheKey] === null
KnownNotToFit(slot) == slot.kind = "null"

\* LabelRenderer.renderFeature(feature, ...) for the feature of identity i:
\* the cache, the occupancy by labels, the labels and the provider calls
renderFeature(rs, i, sc, v, spaces) ==
    LET f == sc[i]
        key == resolutionCacheKey(v.zoom)
        ch == getCacheEntry(rs.cache, i, f)
        entry == ch[i]
        slot == entry.labels[key]
        center == CachedCenter(v, entry.inacessibilityPole)
        hit == tryOccupy(rs.occupiedByLabels, spaces, center, slot, TRUE)
        found == Search(f, entry, key, v, rs.occupiedByLabels, spaces)
    IN  IF ~Supported(f) THEN rs
        ELSE IF KnownNotToFit(slot) THEN [rs EXCEPT !.cache = ch]
        ELSE IF slot.kind = "label"
        THEN IF hit.ok
             THEN [rs EXCEPT
                      !.cache = ch,
                      !.occupiedByLabels = Append(@, hit.labelGeom),
                      !.presentLabels =
                          Append(@, [feature |-> i, footprint |-> hit.labelGeom,
                                     cached |-> TRUE])]
             ELSE [rs EXCEPT !.cache = ch]
        ELSE \* when the provider raises an exception, what was written to
             \* the cache entry stays and no label is placed
             [rs EXCEPT
                 !.threw = found.threw,
                 !.cache = [ch EXCEPT ![i].labels[key] = found.slot,
                                      ![i].inacessibilityPole = found.pole],
                 !.providerCalls[i] = @ + found.calls,
                 !.occupiedByLabels =
                     IF found.placed THEN Append(@, found.labelGeom) ELSE @,
                 !.presentLabels =
                     IF found.placed
                     THEN Append(@, [feature |-> i, footprint |-> found.labelGeom,
                                     cached |-> FALSE])
                     ELSE @]

\* catch (e) { console.warn(...) }: the exception ends with the feature
Caught(rs) == [rs EXCEPT !.threw = FALSE]

\* renderWorld without the try around renderFeature: the exception ends
\* the loop
RECURSIVE renderWorldUncaught(_, _, _, _, _, _)
renderWorldUncaught(rs, ids, k, sc, v, spaces) ==
    IF k > Len(ids) \/ rs.threw THEN rs
    ELSE renderWorldUncaught(renderFeature(rs, ids[k], sc, v, spaces),
                             ids, k + 1, sc, v, spaces)

\* LabelRenderer.renderWorld: renderFeature for the candidates from k on,
\* an exception of renderFeature caught and the loop going on
RECURSIVE renderWorld(_, _, _, _, _, _)
renderWorld(rs, ids, k, sc, v, spaces) ==
    IF k > Len(ids) THEN rs
    ELSE renderWorld(Caught(renderFeature(rs, ids[k], sc, v, spaces)),
                     ids, k + 1, sc, v, spaces)

\* the occupiedSpaces callback of the layer: the walls in the extent of the
\* frame, transformed to the screen
OccupiedSpacesOf(walls, v) ==
    LET inExtent == SelectSeq(walls, LAMBDA w : RectIntersects(w, FrameExtent(v)))
    IN  [k \in DOMAIN inExtent |-> ApplyRect(v, inExtent[k])]

\* the state of the renderer at the start of renderWorlds
FrameStart(ch, sc) ==
    [cache |-> ch, occupiedByLabels |-> <<>>, presentLabels |-> <<>>,
     providerCalls |-> [i \in DOMAIN sc |-> 0], threw |-> FALSE]

\* prepareFrame and renderFrame of one frame with view v, the occupiedSpaces
\* callback seeing the given walls
RenderFrame(v, walls) ==
    \E ids \in { prepareFrame(scene, v) } :
      /\ viewState' = v
      /\ candidates' = ids
      /\ IF ids = <<>>
         THEN \* prepareFrame empties the container and renderFrame is not called
              /\ presentLabels' = <<>>
              /\ UNCHANGED <<cache, occupiedSpaces, occupiedByLabels,
                             providerCalls, attached>>
         ELSE IF ~attached
         THEN \* this.changed(); the map then puts the container into the page
              /\ attached' = TRUE
              /\ UNCHANGED <<cache, occupiedSpaces, occupiedByLabels,
                             presentLabels, providerCalls>>
         ELSE \E spaces \in { OccupiedSpacesOf(walls, v) } :
              \E rs \in { renderWorld(FrameStart(cache, scene), ids, 1,
                                      scene, v, spaces) } :
                /\ occupiedSpaces' = spaces
                /\ cache' = rs.cache
                /\ occupiedByLabels' = rs.occupiedByLabels
                /\ presentLabels' = rs.presentLabels
                /\ providerCalls' = rs.providerCalls
                /\ UNCHANGED attached
      /\ UNCHANGED <<scene, sourceVars>>
      /\ UNCHANGED overpassVars

----------------------------------------------------------------------------
(* The labelled map *)

MaxRevision == 1

\* contents the label provider gives: the width of the text on one line,
\* the width of its widest word, the height of a line
Text(natural, word, lineHeight) ==
    [natural |-> natural, word |-> word, lineHeight |-> lineHeight,
     allowExtendingGeometry |-> FALSE, throws |-> FALSE]

\* the 'icon-only' variant: { allowExtendingGeometry: true }
IconOnly(width) ==
    [natural |-> width, word |-> width, lineHeight |-> width,
     allowExtendingGeometry |-> TRUE, throws |-> FALSE]

\* a label provider that raises an exception when it is called
Throwing ==
    [natural |-> 0, word |-> 0, lineHeight |-> 0,
     allowExtendingGeometry |-> FALSE, throws |-> TRUE]

MapFeature(type, polys, label) ==
    [type |-> type, polys |-> polys, featureRevision |-> 0,
     geometryRevision |-> 0, label |-> label]

\* in the order of the source: a shop of two parts, a point of interest in
\* the hall above its centre, the hall, a corridor axis, a kiosk, and three
\* more points of interest: one next to the centre of the hall, one without
\* a name, one with a long name next to the centre
Scene0 ==
    << MapFeature("MultiPolygon", << Rect(70, 74, 20, 24), Rect(70, 84, 0, 14) >>,
                  << Text(60, 30, 16) >>),
       MapFeature("Point", << Rect(32, 32, 24, 24) >>,
                  << Text(100, 40, 16), IconOnly(16) >>),
       MapFeature("Polygon", << Rect(0, 60, 0, 40) >>,
                  << Text(120, 50, 16), IconOnly(20) >>),
       MapFeature("LineString", << Rect(0, 96, 44, 44) >>,
                  << Text(40, 40, 16) >>),
       MapFeature("Polygon", << Rect(90, 96, 0, 8) >>,
                  << Text(40, 40, 16), IconOnly(16) >>),
       MapFeature("Point", << Rect(30, 30, 21, 21) >>,
                  << Text(70, 70, 16), IconOnly(16) >>),
       MapFeature("Point", << Rect(10, 10, 4, 4) >>,
                  << Text(0, 0, 16) >>),
       MapFeature("Point", << Rect(30, 30, 19, 19) >>,
                  << Text(90, 90, 16), IconOnly(16) >>) >>

FeatureIds == DOMAIN Scene0

\* the views of the map: zoom in hundredths, pixels per unit, centre and size
\* in pixels
View(zoom, scale) ==
    [zoom |-> zoom, scale |-> scale, center |-> <<50, 50>>, size |-> <<800, 600>>]

\* the map moved to where no feature is
ViewAway == [View(1700, 4) EXCEPT !.center = <<500, 50>>]

Views == { View(1700, 4), View(1730, 5), View(1760, 6), ViewAway }

CacheKeys == { resolutionCacheKey(v.zoom) : v \in Views }

\* what the occupiedSpaces callback has to report: nothing before the walls
\* are generated, then a wall through the hall
WallSets == { <<>>, << Rect(43, 45, 0, 40) >> }

\* the state of a LabelRenderer after construction
LabelsInit(sc) ==
    /\ scene = sc
    /\ viewState = View(0, 1)
    /\ cache = [i \in DOMAIN sc |-> NoEntry(CacheKeys)]
    /\ candidates = <<>>
    /\ occupiedSpaces = <<>>
    /\ occupiedByLabels = <<>>
    /\ presentLabels = <<>>
    /\ providerCalls = [i \in DOMAIN sc |-> 0]
    /\ attached = FALSE

\* feature.set(...) / feature.changed() on feature i
ChangeFeature(i) ==
    /\ scene[i].featureRevision < MaxRevision
    /\ scene' = [scene EXCEPT ![i].featureRevision = @ + 1]
    /\ UNCHANGED <<viewState, cache, candidates, occupiedSpaces,
                   occupiedByLabels, presentLabels, providerCalls, attached>>
    /\ UNCHANGED sourceVars
    /\ UNCHANGED overpassVars

\* the geometry of the area i is cut back by two units on its left side, as
\* a rebuilt wall cuts it; geometry and feature both count the change
ChangeGeometry(i) ==
    /\ IsAreaType(scene[i])
    /\ scene[i].geometryRevision < MaxRevision
    /\ scene' = [scene EXCEPT
           ![i].polys = [k \in DOMAIN @ |->
                            Rect(@[k].minx + 2, @[k].maxx,
                                 @[k].miny, @[k].maxy)],
           ![i].geometryRevision = @ + 1,
           ![i].featureRevision = @ + 1]
    /\ UNCHANGED <<viewState, cache, candidates, occupiedSpaces,
                   occupiedByLabels, presentLabels, providerCalls, attached>>
    /\ UNCHANGED sourceVars
    /\ UNCHANGED overpassVars

InitLabels ==
    /\ features = <<>>
    /\ levels = <<>>
    /\ resultingFeatures = {}
    /\ activeLevel = 0
    /\ nextLevelId = 1
    /\ pendingTimeouts = 0
    /\ dataset = {}
    /\ LabelsInit(Scene0)
    /\ OverpassInit

\* the features that are edited while the map is shown: the first point of
\* interest gets another tag, the hall is cut by its walls
Edited == { i \in FeatureIds : Scene0[i].type = "Point" /\ Len(Scene0[i].label) > 1
                               /\ \A j \in 1..(i - 1) : Scene0[j].type # "Point" }

Cut == { i \in FeatureIds : Scene0[i].type = "Polygon"
                            /\ \A j \in 1..(i - 1) : Scene0[j].type # "Polygon" }

NextLabels ==
    \/ \E v \in Views : \E walls \in WallSets : RenderFrame(v, walls)
    \/ \E i \in Edited : ChangeFeature(i)
    \/ \E i \in Cut : ChangeGeometry(i)

SpecLabels == InitLabels /\ [][NextLabels]_vars

\* the first four features of the map with one more area, smaller than the
\* hall, for which the label provider fails
SceneFaulty ==
    Append(SubSeq(Scene0, 1, 4),
           MapFeature("Polygon", << Rect(62, 90, 26, 40) >>, << Throwing >>))

InitFaulty ==
    /\ features = <<>>
    /\ levels = <<>>
    /\ resultingFeatures = {}
    /\ activeLevel = 0
    /\ nextLevelId = 1
    /\ pendingTimeouts = 0
    /\ dataset = {}
    /\ LabelsInit(SceneFaulty)
    /\ OverpassInit

SpecFaulty == InitFaulty /\ [][NextLabels]_vars

----------------------------------------------------------------------------
(* The loaded data *)

T0 == << "0" >>

T1 == << "1" >>

T01 == << "0", "-", "1" >>

T00 == << "0", ";", "0" >>

TBad == << "x" >>

RoomA == MkFeature("Polygon", 10 .. 30, Tags(T0, "room", "", ""))

RoomB == MkFeature("Polygon", 40 .. 60, Tags(T0, "room", "", ""))

Corridor == MkFeature("Polygon", 29 .. 41, Tags(T0, "corridor", "", ""))

AreaNear == MkFeature("Polygon", 35 .. 38, Tags(T0, "area", "", ""))

WallLine == MkFeature("LineString", 28 .. 45, Tags(T0, "wall", "", ""))

Entrance == MkFeature("Point", {30}, Tags(T0, "", "yes", ""))

Poi == MkFeature("Point", {45}, Tags(T00, "", "", ""))

Stairs == MkFeature("Polygon", 12 .. 28, Tags(T01, "room", "", ""))

Catalog == {RoomA, RoomB, Corridor, Entrance, Stairs}

Init ==
    /\ features = <<>>
    /\ levels = <<>>
    /\ resultingFeatures = {}
    /\ activeLevel = 0
    /\ nextLevelId = 1
    /\ pendingTimeouts = 0
    /\ dataset = Catalog
    /\ LabelsInit(<<>>)
    /\ OverpassInit

Next ==
    \/ \E f \in dataset : AddFeature(f)
    \/ \E extent \in Extents :
         \E dur \in Timings :
            GetFeaturesInExtent(extent, dur)
    \/ \E n \in ActiveLevels : SetActiveLevel(n)
    \/ TimeoutFires

Spec == Init /\ [][Next]_vars

----------------------------------------------------------------------------
(* Routing alone: addFeature calls over a wider choice of features *)

Junk == MkFeature("Point", {50}, Tags(TBad, "", "", ""))

RoutingCatalog ==
    {RoomA, RoomB, Corridor, AreaNear, WallLine, Entrance, Poi, Stairs, Junk}

InitRouting ==
    /\ features = <<>>
    /\ levels = <<>>
    /\ resultingFeatures = {}
    /\ activeLevel = 0
    /\ nextLevelId = 1
    /\ pendingTimeouts = 0
    /\ dataset = RoutingCatalog
    /\ LabelsInit(<<>>)
    /\ OverpassInit

NextRouting == \E f \in dataset : AddFeature(f)

SpecRouting == InitRouting /\ [][NextRouting]_vars

----------------------------------------------------------------------------
(* Routing of every level tag up to MaxTagLen characters *)

TagChars == {"0", "1", "-", ";", ".", " ", "x"}

RECURSIVE TagsOfLen(_)
TagsOfLen(n) ==
    IF n = 0 THEN { <<>> }
    ELSE { Append(t, c) : t \in TagsOfLen(n - 1), c \in TagChars }

AllTags == UNION { TagsOfLen(n) : n \in 0 .. MaxTagLen }

Probe(t) == MkFeature("Polygon", 10 .. 30, Tags(t, "room", "", ""))

InitTags ==
    /\ features = <<>>
    /\ levels = <<>>
    /\ resultingFeatures = {}
    /\ activeLevel = 0
    /\ nextLevelId = 1
    /\ pendingTimeouts = 0
    /\ dataset \in { {Probe(t)} : t \in AllTags }
    /\ LabelsInit(<<>>)
    /\ OverpassInit

NextTags == \E f \in dataset : AddFeature(f)

SpecTags == InitTags /\ [][NextTags]_vars

----------------------------------------------------------------------------
(* Observations on a state *)

LevelSet == SeqToSet(levels)

\* the Levels that have feature i in their member list
LevelsWith(i) == { l \in LevelSet : i \in SeqToSet(l.features) }

\* the level numbers feature i has been routed to
MemberNumbers(i) == { l.levelNumber : l \in LevelsWith(i) }

Ranges(i) == SeqToSet(parseLevel(features[i].tags.level))

ValidRange(r) == ~IsNaN(r.from) /\ ~IsNaN(r.to)

RangeMin(r) == IF r.from <= r.to THEN r.from ELSE r.to

RangeMax(r) == IF r.from <= r.to THEN r.to ELSE r.from

IsInteger(v) == v % LevelScale = 0

\* the integers n with min(from, to) <= n <= max(from, to)
IntegersOf(r) ==
    { n * LevelScale :
        n \in (0 - ((0 - RangeMin(r)) \div LevelScale))
              .. (RangeMax(r) \div LevelScale) }

\* the numbers min, min + 1, min + 2, ... that do not exceed max
StepsOf(r) ==
    { RangeMin(r) + k * LevelScale :
        k \in 0 .. ((RangeMax(r) - RangeMin(r)) \div LevelScale) }

AddedIds == { i \in DOMAIN features : features[i].tags.generated = "" }

----------------------------------------------------------------------------
(* C1 *)

----------------------------------------------------------------------------
(* C2, C3: what one addFeature call does *)

\* the step passes one more feature to addFeature
AddStep == Len(Added') = Len(Added) + 1

NewId == Len(features')

NewFeature == features'[Len(features')]

LevelIds(lv) == { lv[k].id : k \in DOMAIN lv }

LevelById(lv, id) == CHOOSE l \in SeqToSet(lv) : l.id = id

\* the numeric level numbers of the feature the step adds
NewNumbers ==
    { n \in SeqToSet(levelsOfFeature(NewFeature.tags.level)) : ~IsNaN(n) }

\* the Levels of number n that intersect the added feature before the call
FoundBefore(n) ==
    { levels[k].id : k \in Intersecting(levels, n, NewFeature.geometry) }

IdsAt(lv, n) == { l.id : l \in { x \in SeqToSet(lv) : NumEq(x.levelNumber, n) } }

SeededRegion(f) ==
    IF IsArea(f) THEN UnionOp(f.geometry, Buffer(f.geometry, outerWallWidth))
    ELSE f.geometry

\* C2: after addFeature(f), for every level number n of f's membership
\* exactly one Level of number n has f as a member; when no Level of number
\* n intersected f, a new Level seeded with f's geometry was created for it;
\* when exactly one did, f was attached to it and no Level was created.
C2_RoutedToOneLevelPerNumber ==
    [][ AddStep =>
          \A n \in NewNumbers :
            LET holders == { l \in SeqToSet(levels') :
                               NumEq(l.levelNumber, n)
                               /\ NewId \in SeqToSet(l.features) }
                created == IdsAt(levels', n) \ LevelIds(levels)
            IN  /\ Cardinality(holders) = 1
                /\ FoundBefore(n) = {} =>
                     /\ Cardinality(created) = 1
                     /\ \A l \in holders :
                          /\ l.id \in created
                          /\ SeqToSet(l.features) = {NewId}
                          /\ l.geometry = SeededRegion(NewFeature)
                /\ Cardinality(FoundBefore(n)) = 1 =>
                     /\ created = {}
                     /\ \A l \in holders : l.id \in FoundBefore(n)
      ]_vars

\* a Level that a feature was attached to and a Level that was created for
\* a feature exist side by side
C2_Witness ==
    /\ \E l \in LevelSet : Cardinality(SeqToSet(l.features)) >= 2
    /\ \E l \in LevelSet : Cardinality(SeqToSet(l.features)) = 1
    /\ Len(levels) >= 2

Count(s, x) == Cardinality({ k \in DOMAIN s : s[k] = x })

\* C3: when addFeature(f) finds k >= 2 Levels of one number intersecting f,
\* exactly one of them remains, its members are every member of the k
\* Levels plus f, none lost, and the other k-1 Levels are gone; when those
\* k were all the Levels of that number, one Level of that number is left.
C3_MergeOnBridging ==
    [][ AddStep =>
          \A n \in NewNumbers :
            LET found == FoundBefore(n)
                left == found \cap LevelIds(levels')
            IN  Cardinality(found) >= 2 =>
                  /\ Cardinality(left) = 1
                  /\ \A id \in left :
                       LET survivor == LevelById(levels', id)
                       IN  /\ SeqToSet(survivor.features)
                                = UNION { SeqToSet(LevelById(levels, x).features)
                                            : x \in found } \cup {NewId}
                           /\ \A x \in found :
                                \A m \in SeqToSet(LevelById(levels, x).features) :
                                  Count(survivor.features, m)
                                     >= Count(LevelById(levels, x).features, m)
                  /\ found = IdsAt(levels, n) =>
                       Cardinality(IdsAt(levels', n)) = 1
      ]_vars

\* a Level has been discarded by a merge: two rooms that do not intersect are
\* members of one Level, after a Level had been made for each
C3_Witness ==
    /\ nextLevelId - 1 > Len(levels)
    /\ \E l \in LevelSet :
         \E i, j \in SeqToSet(l.features) :
            /\ features[i] = RoomA
            /\ features[j] = RoomB

----------------------------------------------------------------------------
(* C4: the order of the addFeature calls *)

EmptySource == [levels |-> <<>>, resultingFeatures |-> {}, nextLevelId |-> 1]

\* the source after addFeature has been called for the features order[1],
\* order[2], ... of the arena, each keeping its identity
RECURSIVE Routed(_)
Routed(order) ==
    IF order = <<>> THEN EmptySource
    ELSE LET before == Routed(SubSeq(order, 1, Len(order) - 1))
             i == order[Len(order)]
         IN  addFeature(before, i, features[i])

Orders(S) ==
    { o \in [1 .. Cardinality(S) -> S] :
        \A a, b \in 1 .. Cardinality(S) : a # b => o[a] # o[b] }

\* the features of S whose membership has level number n
At(S, n) ==
    { i \in S : \E m \in SeqToSet(levelsOfFeature(features[i].tags.level)) :
                   NumEq(m, n) }

\* the features reachable from those of R through intersecting geometries
RECURSIVE Cluster(_, _)
Cluster(R, S) ==
    LET more == { j \in S \ R : \E i \in R :
                    RelateIntersects(features[i].geometry, features[j].geometry) }
    IN  IF more = {} THEN R ELSE Cluster(R \cup more, S)

Connected(S) == S # {} /\ \A i \in S : Cluster({i}, S) = S

\* the Levels of number n as regions with member sets
Summary(lv, n) ==
    { [region |-> l.geometry, members |-> SeqToSet(l.features)] :
        l \in { x \in SeqToSet(lv) : NumEq(x.levelNumber, n) } }

NumbersOf(S) ==
    { n \in UNION { SeqToSet(levelsOfFeature(features[i].tags.level)) : i \in S } :
        ~IsNaN(n) }

\* C4: for features whose geometries form one connected cluster at a level
\* number, every order of passing them to addFeature gives the same number
\* of Levels of that number, with the same regions and the same members.
C4_OrderIndependent ==
    \A n \in NumbersOf(AddedIds) :
        Connected(At(AddedIds, n)) =>
            \A o \in Orders(At(AddedIds, n)) :
                Summary(Routed(o).levels, n) = Summary(levels, n)

----------------------------------------------------------------------------
(* C6, C7: the regions *)

\* C6: any two distinct Levels with the same level number have regions that
\* do not intersect.
C6_SameNumberRegionsDisjoint ==
    \A a, b \in LevelSet :
        (a.id # b.id /\ NumEq(a.levelNumber, b.levelNumber))
            => ~RelateIntersects(a.geometry, b.geometry)

\* the geometry a member contributes to a region according to the claim
Contribution(i) ==
    IF IsArea(features[i]) THEN Buffer(features[i].geometry, outerWallWidth)
    ELSE features[i].geometry

WasSeed(i, n) ==
    /\ \E m \in SeqToSet(levelsOfFeature(features[i].tags.level)) :
          m = n
    /\ Intersecting(Routed([k \in 1 .. i - 1 |-> k]).levels, n,
                    features[i].geometry) = {}

----------------------------------------------------------------------------
(* C5: members stay together *)

Together(lv, i, j, n) ==
    \E l \in SeqToSet(lv) :
        /\ NumEq(l.levelNumber, n)
        /\ i \in SeqToSet(l.features)
        /\ j \in SeqToSet(l.features)

\* C5: once two features are members of one Level of number n, every step
\* (addFeature, a scheduling pass with its rebuilds, a change of the active
\* level, a timer) leaves a Level of number n that has both as members.
C5_MergeIsMonotonic ==
    [][ \A l \in LevelSet :
          \A i, j \in SeqToSet(l.features) :
            ~IsNaN(l.levelNumber) => Together(levels', i, j, l.levelNumber)
      ]_vars

\* a Level that came out of a merge has been rebuilt
C5_Witness ==
    /\ nextLevelId - 1 > Len(levels)
    /\ \E l \in LevelSet :
         /\ ~l.wallRebuildRequired
         /\ Cardinality(SeqToSet(l.features)) >= 3

----------------------------------------------------------------------------
(* C8: the dirty flag *)

PassStep ==
    \E extent \in Extents : \E dur \in Timings : GetFeaturesInExtent(extent, dur)

\* C8: a Level is dirty when created; a Level whose member list has grown,
\* by an added member or by a merge, is dirty afterwards; a dirty Level
\* becomes clean only in a step that runs rebuildWall on it to the end.
C8_DirtyFlagStateMachine ==
    [][ \A l \in SeqToSet(levels') :
          /\ l.id \notin LevelIds(levels) => l.wallRebuildRequired
          /\ l.id \in LevelIds(levels) =>
               LET old == LevelById(levels, l.id)
               IN  /\ Len(l.features) > Len(old.features)
                        => l.wallRebuildRequired
                   /\ (old.wallRebuildRequired /\ ~l.wallRebuildRequired)
                        => PassStep /\ l.wall = WallOf(old, features)
      ]_vars

----------------------------------------------------------------------------
(* C9, C10: the time budget of a pass *)

DirtyInView(lv, extent) ==
    { l.id : l \in { x \in SeqToSet(lv) :
                       LevelInView(x, extent, activeLevel)
                       /\ x.wallRebuildRequired } }

\* every rebuild takes longer than the budget, and the clock moves during
\* rebuilds only
SlowTiming == [j \in 0 .. MaxRebuildsPerPass |-> IF j = 0 THEN 0 ELSE SlowRebuild]

NextPass(ps, extent) ==
    RebuildPass([ps EXCEPT !.elapsed = 0, !.aborted = FALSE, !.abortedAt = 0,
                           !.rebuilt = <<>>],
                1, extent, activeLevel, SlowTiming)

RECURSIVE AfterPasses(_, _, _)
AfterPasses(ps, extent, k) ==
    IF k = 0 THEN ps ELSE NextPass(AfterPasses(ps, extent, k - 1), extent)

C10_AbortLeavesLaterLevelsAlone ==
    [][ \A extent \in Extents : \A dur \in Timings :
          LET ps == RebuildPass(PassStart, 1, extent, activeLevel, dur)
          IN  (GetFeaturesInExtent(extent, dur) /\ ps.aborted) =>
                /\ pendingTimeouts' = pendingTimeouts + 1
                /\ \A k \in ps.abortedAt .. Len(levels) :
                     /\ levels'[k].wall = levels[k].wall
                     /\ levels'[k].wallRebuildRequired
                            = levels[k].wallRebuildRequired
                     /\ \A i \in SeqToSet(levels[k].features) :
                            features'[i].geometry = features[i].geometry
      ]_vars

----------------------------------------------------------------------------
(* C11, C12: the outcome of a rebuild *)

\* the geometries of the members of l in the arena F
MemberGeometries(l, F) == [k \in DOMAIN l.features |-> F[l.features[k]].geometry]

\* C11: rebuildWall called twice in a row on a Level, with no addFeature in
\* between, leaves after the second call the wall polygon and the member
\* geometries of the first call.
C11_RebuildIsIdempotent ==
    \A k \in DOMAIN levels :
        LET once == rebuildWall(levels[k], features)
            twice == rebuildWall(once.level, once.features)
        IN  /\ twice.level.wall = once.level.wall
            /\ MemberGeometries(twice.level, twice.features)
                   = MemberGeometries(once.level, once.features)
            /\ twice.level.wallRebuildRequired = FALSE

\* a dirty Level with rooms whose first rebuild clips a member
C11_Witness ==
    \E k \in DOMAIN levels :
        /\ levels[k].wallRebuildRequired
        /\ LET once == rebuildWall(levels[k], features)
           IN  /\ once.level.wall # {}
               /\ MemberGeometries(once.level, once.features)
                      # MemberGeometries(levels[k], features)

\* C12: in every clean Level the displayed geometry of every Polygon or
\* MultiPolygon member has an empty intersection with the Level's wall.
C12_WallNeverCoversAreas ==
    \A l \in LevelSet :
        ~l.wallRebuildRequired =>
            \A i \in SeqToSet(l.features) :
                IsArea(features[i]) =>
                    Intersection(features[i].geometry, l.wall) = {}

\* a clean Level with a wall, a room and an unwalled area
C12_Witness ==
    \E l \in LevelSet :
        /\ ~l.wallRebuildRequired
        /\ l.wall # {}
        /\ \E i, j \in SeqToSet(l.features) :
              /\ IsArea(features[i]) /\ features[i].tags.indoor = "room"
              /\ IsArea(features[j]) /\ features[j].tags.indoor = "corridor"
              /\ features[j].geometry # {}

----------------------------------------------------------------------------
(* Claims on the placement of labels *)

\* the labels of the last frame that meet a region the occupiedSpaces
\* callback reported for that frame
CoveringLabels ==
    { k \in DOMAIN presentLabels :
        \E w \in DOMAIN occupiedSpaces :
            RectIntersects(presentLabels[k].footprint, occupiedSpaces[w]) }

\* C13: no label of a frame, freshly placed or taken from the cache, has a
\* footprint that intersects a region the occupiedSpaces callback reported
\* for that frame.
C13_LabelsAvoidOccupiedSpaces == CoveringLabels = {}

\* the part of C13 on freshly placed labels
C13_FreshLabelsAvoidOccupiedSpaces ==
    \A k \in CoveringLabels : presentLabels[k].cached

\* C14: the footprints of the labels of one frame are pairwise
\* non-intersecting, whether the labels were placed freshly, taken from the
\* cache or given by a variant that may extend beyond its geometry.
C14_LabelsDoNotOverlap ==
    \A a, b \in DOMAIN presentLabels :
        a # b => ~RectIntersects(presentLabels[a].footprint,
                                 presentLabels[b].footprint)

\* the variant whose placement the cache holds for feature i in the bucket
\* of the view, told by the height of an 'icon-only' label
IsIconPlacement(i) ==
    LET slot == cache[i].labels[resolutionCacheKey(viewState.zoom)]
    IN  /\ slot.kind = "label"
        /\ \E k \in DOMAIN scene[i].label :
              /\ scene[i].label[k].allowExtendingGeometry
              /\ slot.height = scene[i].label[k].lineHeight
              /\ RectWidth(slot.shape) = scene[i].label[k].natural

\* a frame with a fresh label, a cached label and an 'icon-only' label, in
\* which a candidate was left without a label
C14_Witness ==
    /\ \E a, b, c \in DOMAIN presentLabels :
          /\ presentLabels[a].cached
          /\ ~presentLabels[b].cached
          /\ IsIconPlacement(presentLabels[c].feature)
    /\ \E k \in DOMAIN candidates :
          /\ Supported(scene[candidates[k]])
          /\ ~NoContents(Variant(scene[candidates[k]], 1))
          /\ \A a \in DOMAIN presentLabels :
                presentLabels[a].feature # candidates[k]

\* the features labelled in a frame, each with the footprint of its label
LabelSet(labels) ==
    { [feature |-> labels[k].feature, footprint |-> labels[k].footprint] :
        k \in DOMAIN labels }

\* the last frame placed labels for the candidates, and no feature or
\* geometry among them has changed since
PlacedAndUnchanged ==
    /\ attached
    /\ candidates # <<>>
    /\ candidates = prepareFrame(scene, viewState)
    /\ \A k \in DOMAIN candidates :
          LET i == candidates[k]
          IN  Supported(scene[i]) =>
                /\ cache[i].present
                /\ cache[i].featureRevision = scene[i].featureRevision
                /\ cache[i].geometryRevision = scene[i].geometryRevision
                /\ cache[i].labels[resolutionCacheKey(viewState.zoom)].kind
                      # "undefined"

\* a frame over the same candidates with the same view and the same
\* occupied spaces as the frame before: of the steps that change the state
\* only those of RenderFrame leave the scene as it is
SameFrameAgain ==
    /\ PlacedAndUnchanged
    /\ scene' = scene
    /\ viewState' = viewState
    /\ candidates' = candidates
    /\ occupiedSpaces' = occupiedSpaces

\* C15: a frame that follows a frame with the same candidates in the same
\* order, the same revisions, the same zoom and transform and the same
\* occupied spaces labels the same features with the same footprints.
C15_PlacementIsStable ==
    [][SameFrameAgain => LabelSet(presentLabels') = LabelSet(presentLabels)]_vars

\* a frame served from the cache alone that a further frame would repeat:
\* several labels, all cached, and a candidate whose cached placement
\* collides and stays without a label
C15_Witness ==
    /\ PlacedAndUnchanged
    /\ Len(presentLabels) >= 3
    /\ \A k \in DOMAIN presentLabels : presentLabels[k].cached
    /\ \E k \in DOMAIN candidates :
          /\ cache[candidates[k]].labels[resolutionCacheKey(viewState.zoom)].kind
                = "label"
          /\ \A a \in DOMAIN presentLabels :
                presentLabels[a].feature # candidates[k]
    /\ LabelSet(renderWorld(FrameStart(cache, scene), candidates, 1, scene,
                            viewState, occupiedSpaces).presentLabels)
          = LabelSet(presentLabels)

\* the position of feature i in the list a frame processes
Position(i) == CHOOSE k \in DOMAIN candidates : candidates[k] = i

Listed == { candidates[k] : k \in DOMAIN candidates }

\* every area comes before every feature that is not an area
AreasBeforeOthers ==
    \A i, j \in Listed :
        IsAreaType(scene[i]) /\ ~IsAreaType(scene[j]) => Position(i) < Position(j)

\* C16: in the list a frame processes every Polygon or MultiPolygon comes
\* before every Point, and of two areas the larger one comes after the
\* smaller one.
C16_SmallerAreasFirst ==
    /\ AreasBeforeOthers
    /\ \A i, j \in Listed :
          /\ IsAreaType(scene[i]) /\ IsAreaType(scene[j])
          /\ GeometryArea(scene[i]) > GeometryArea(scene[j])
          => Position(i) > Position(j)

\* C16 as the code has it: areas before the other features, and of two
\* areas the larger one comes before the smaller one.
C16_LargerAreasFirst ==
    /\ AreasBeforeOthers
    /\ \A i, j \in Listed :
          /\ IsAreaType(scene[i]) /\ IsAreaType(scene[j])
          /\ GeometryArea(scene[i]) > GeometryArea(scene[j])
          => Position(i) < Position(j)

\* a frame over three areas of different sizes and several points, the
\* areas not in the order of the source
C16_Witness ==
    /\ attached
    /\ \E i, j, k \in Listed :
          /\ IsAreaType(scene[i]) /\ IsAreaType(scene[j]) /\ IsAreaType(scene[k])
          /\ GeometryArea(scene[i]) > GeometryArea(scene[j])
          /\ GeometryArea(scene[j]) > GeometryArea(scene[k])
    /\ \E i, j \in Listed :
          /\ scene[i].type = "Point" /\ scene[j].type = "Point" /\ i # j
    /\ \E i, j \in Listed : i < j /\ Position(i) > Position(j)
    /\ presentLabels # <<>>

\* the cache holds a placement for feature i at its present revisions in
\* zoom bucket key
HasCachedPlacement(i, key) ==
    /\ cache[i].present
    /\ cache[i].featureRevision = scene[i].featureRevision
    /\ cache[i].geometryRevision = scene[i].geometryRevision
    /\ cache[i].labels[key].kind = "label"

\* a frame is rendered for the candidates: of the steps that change the
\* state only those of RenderFrame leave the scene as it is
FrameRendered ==
    /\ attached
    /\ scene' = scene
    /\ candidates' # <<>>

\* the frame found the cached placement of feature i colliding: it had one
\* and no label of the frame is taken from the cache for i
CachedPlacementCollided(i) ==
    /\ FrameRendered
    /\ \E k \in DOMAIN candidates' : candidates'[k] = i
    /\ Supported(scene[i])
    /\ HasCachedPlacement(i, resolutionCacheKey(viewState'.zoom))
    /\ \A a \in DOMAIN presentLabels' :
          presentLabels'[a].feature = i => ~presentLabels'[a].cached

\* C17: a frame that finds the cached placement of a feature colliding
\* runs the placement search for the feature: the label provider is asked,
\* or the search ends before that with the mark that nothing fits.
C17_CollisionFallsThrough ==
    [][\A i \in FeatureIds :
          CachedPlacementCollided(i) =>
             \/ providerCalls'[i] > 0
             \/ cache'[i].labels[resolutionCacheKey(viewState'.zoom)].kind = "null"
      ]_vars

\* the cache holds an entry for feature i made at other revisions
HasStaleEntry(i) ==
    /\ cache[i].present
    /\ \/ cache[i].featureRevision # scene[i].featureRevision
       \/ cache[i].geometryRevision # scene[i].geometryRevision

\* the anchor point the search computes for the present geometry of f
FreshPole(f) ==
    IF f.type = "Point"
    THEN << LabelledGeometry(f).minx, LabelledGeometry(f).miny >>
    ELSE polylabel(LabelledGeometry(f))

\* C18: a frame takes a label from the cache only for an entry whose
\* featureRevision and geometryRevision are the present ones of the
\* feature; an entry of other revisions is replaced by an entry of the
\* present revisions that holds nothing but what this frame computes: no
\* slot of another zoom bucket, no anchor point of the old geometry, and the
\* label of the feature in this frame, if any, is freshly placed.
C18_StaleEntriesAreDiscarded ==
    [][FrameRendered =>
         \A k \in DOMAIN candidates' :
            LET i == candidates'[k]
                key == resolutionCacheKey(viewState'.zoom)
            IN  /\ (\E a \in DOMAIN presentLabels' :
                       /\ presentLabels'[a].feature = i
                       /\ presentLabels'[a].cached)
                   => HasCachedPlacement(i, key)
                /\ (Supported(scene[i]) /\ HasStaleEntry(i)) =>
                      /\ cache'[i].present
                      /\ cache'[i].featureRevision = scene[i].featureRevision
                      /\ cache'[i].geometryRevision = scene[i].geometryRevision
                      /\ \A other \in CacheKeys \ {key} :
                            cache'[i].labels[other] = UndefinedSlot
                      /\ cache'[i].inacessibilityPole \in {<<>>, FreshPole(scene[i])}
      ]_vars

\* before a frame: entries with placements in two zoom buckets that are
\* stale, one by the revision of the feature alone and one by a changed
\* geometry with another anchor point, which getCacheEntry replaces
C18_Witness ==
    /\ attached
    /\ \E i, j \in Listed :
          /\ HasStaleEntry(i) /\ HasStaleEntry(j)
          /\ cache[i].geometryRevision = scene[i].geometryRevision
          /\ cache[j].geometryRevision # scene[j].geometryRevision
          /\ cache[j].inacessibilityPole # FreshPole(scene[j])
          /\ \A key \in CacheKeys : cache[i].labels[key].kind = "label"
          /\ \E key \in CacheKeys : cache[j].labels[key].kind = "label"
          /\ getCacheEntry(cache, i, scene[i])[i] = CreatedEntry(scene[i], CacheKeys)
          /\ getCacheEntry(cache, j, scene[j])[j] = CreatedEntry(scene[j], CacheKeys)

\* the cache entry of feature i is of its present revisions
HasCurrentEntry(i) ==
    /\ cache[i].present
    /\ cache[i].featureRevision = scene[i].featureRevision
    /\ cache[i].geometryRevision = scene[i].geometryRevision

Labelled(labels, i) == \E a \in DOMAIN labels : labels[a].feature = i

\* C19: a frame that searches a placement for a feature and places no
\* variant marks the feature as not fitting in the zoom bucket of the frame;
\* a frame that finds the mark at unchanged revisions gives the feature no
\* label and does not call the label provider; neither frame touches the
\* slots of the other zoom buckets.
C19_NoFitIsRemembered ==
    [][FrameRendered =>
         \A k \in DOMAIN candidates' :
            LET i == candidates'[k]
                key == resolutionCacheKey(viewState'.zoom)
                searched == \/ ~HasCurrentEntry(i)
                            \/ cache[i].labels[key].kind = "undefined"
                marked == HasCurrentEntry(i) /\ cache[i].labels[key].kind = "null"
            IN  Supported(scene[i]) =>
                  /\ (searched /\ ~Labelled(presentLabels', i))
                        => cache'[i].labels[key].kind = "null"
                  /\ marked =>
                        /\ ~Labelled(presentLabels', i)
                        /\ providerCalls'[i] = 0
                        /\ cache'[i] = cache[i]
                  /\ HasCurrentEntry(i) =>
                        \A other \in CacheKeys \ {key} :
                           cache'[i].labels[other] = cache[i].labels[other]
      ]_vars

\* a frame served by the mark: a point that did not fit in the zoom bucket
\* of the frame has no label and the provider was not asked for it, while
\* its placement in the other zoom bucket is kept
C19_Witness ==
    /\ attached
    /\ \E i \in Listed :
          /\ scene[i].type = "Point"
          /\ HasCurrentEntry(i)
          /\ cache[i].labels[resolutionCacheKey(viewState.zoom)].kind = "null"
          /\ \E other \in CacheKeys : cache[i].labels[other].kind = "label"
          /\ providerCalls[i] = 0
          /\ ~Labelled(presentLabels, i)
    /\ presentLabels # <<>>

\* the variants of the label of f the search can ask for: all of them, or
\* those up to the first one without contents, which ends the search
RECURSIVE VariantsToTry(_, _)
VariantsToTry(f, k) ==
    IF k = 0 THEN 0
    ELSE IF NoContents(Variant(f, k)) THEN 1
    ELSE 1 + VariantsToTry(f, fallbackVariant(f, k))

\* C20: a variant whose width falls below the minimum of 30 is given up for
\* its fallback variant: a frame that searches a placement for a feature
\* leaves it without a label only after the label provider was asked for
\* every variant.
C20_NarrowVariantGivesWayToFallback ==
    [][FrameRendered =>
         \A k \in DOMAIN candidates' :
            LET i == candidates'[k]
                key == resolutionCacheKey(viewState'.zoom)
                searched == \/ ~HasCurrentEntry(i)
                            \/ cache[i].labels[key].kind = "undefined"
            IN  (Supported(scene[i]) /\ searched /\ ~Labelled(presentLabels', i))
                   => providerCalls'[i] = VariantsToTry(scene[i], 1)
      ]_vars

----------------------------------------------------------------------------
(* C21: level tokens that are no number and no range *)

Tokens(i) == SeqToSet(SplitSemi(features[i].tags.level, 1, 1))

\* the token is neither N nor N-M with numbers N, M: a part without a
\* number in front (the empty part included), or more than two parts
Malformed(token) ==
    LET parts == SplitRange(token, 1, 1)
    IN  \/ Len(parts) > 2
        \/ \E k \in DOMAIN parts : IsNaN(parseFloat(parts[k]))

\* the level numbers the well-formed tokens of feature i stand for
WellFormedNumbers(i) ==
    IF ~Truthy(features[i].tags.level) THEN {}
    ELSE UNION { SeqToSet(FlatMap(RangeLevels, ParseToken(t))) :
                    t \in { u \in Tokens(i) : ~Malformed(u) } }

\* C21: a malformed token of a feature's level tag contributes no level
\* membership: the Levels that exist after addFeature are those of the
\* well-formed tokens, and the feature is a member of a Level at these
\* numbers only.
C21_MalformedTokenAddsNoLevel ==
    \A i \in AddedIds :
        /\ MemberNumbers(i) = WellFormedNumbers(i)
        /\ (\A t \in Tokens(i) : Malformed(t)) => levels = <<>>

----------------------------------------------------------------------------
(* C22: an exception of renderFeature *)

\* the label provider of feature i raises an exception
Faulty(i) == \E k \in DOMAIN scene[i].label : scene[i].label[k].throws

\* C22: in a placement pass a feature whose label placement raises an
\* exception gets no label, and the pass returns for the other features
\* the labels it returns when the failing feature is not among the
\* candidates.
C22_FailureIsIsolated ==
    [][FrameRendered =>
          LET others == SelectSeq(candidates', LAMBDA i : ~Faulty(i))
          IN  /\ \A i \in SeqToSet(candidates') :
                     Faulty(i) => ~Labelled(presentLabels', i)
              /\ presentLabels' =
                     renderWorld(FrameStart(cache, scene), others, 1, scene,
                                 viewState', occupiedSpaces').presentLabels]_vars

\* a pass has called the failing provider and has labelled a feature that
\* comes later in the list
C22_Witness ==
    /\ attached
    /\ \E a \in DOMAIN candidates : \E b \in DOMAIN candidates :
           /\ a < b
           /\ Faulty(candidates[a])
           /\ providerCalls[candidates[a]] > 0
           /\ Labelled(presentLabels, candidates[b])

----------------------------------------------------------------------------
(* C23, C24: what getFeaturesInExtent and getPresentLevels return *)

T10 == << "1", "-", "0" >>

T02 == << "0", "-", "2" >>

Lift == MkFeature("Polygon", 40 .. 60, Tags(T02, "room", "", ""))

Ramp == MkFeature("Polygon", 42 .. 58, Tags(T10, "room", "", ""))

Outline == MkFeature("Polygon", 5 .. 65, Tags(Undefined, "", "", "yes"))

RangeCatalog == {RoomA, Stairs, Lift, Ramp, Entrance, Outline}

InitRanges ==
    /\ features = <<>>
    /\ levels = <<>>
    /\ resultingFeatures = {}
    /\ activeLevel = 0
    /\ nextLevelId = 1
    /\ pendingTimeouts = 0
    /\ dataset = RangeCatalog
    /\ LabelsInit(<<>>)
    /\ OverpassInit

SpecRanges == InitRanges /\ [][Next]_vars

\* the geometry and the tags of a feature of resultingFeatures: a loaded
\* feature or a walkway, or the wall feature of a Level
ItemGeometry(item) ==
    IF item.kind = "wall" THEN LevelById(levels, item.id).wall
    ELSE features[item.id].geometry

ItemLevelTag(item) ==
    IF item.kind = "wall" THEN NumToStr(LevelById(levels, item.id).levelNumber)
    ELSE features[item.id].tags.level

ItemIsBuilding(item) ==
    item.kind = "feature" /\ features[item.id].tags.building # ""

\* resultingFeatures.getFeaturesInExtent(extent, projection)
FeaturesInExtent(extent) ==
    { item \in resultingFeatures :
        /\ ItemGeometry(item) # {}
        /\ EnvelopeIntersects(extent, ItemGeometry(item)) }

\* the filter of the return statement of getFeaturesInExtent
PassesLevelFilter(item, active) ==
    \/ ItemIsBuilding(item)
    \/ \E fromTo \in SeqToSet(parseLevel(ItemLevelTag(item))) :
           Leq(fromTo.from, active) /\ Leq(active, fromTo.to)

\* what getFeaturesInExtent(extent) returns after its loop
getFeaturesInExtentResult(extent) ==
    { item \in FeaturesInExtent(extent) : PassesLevelFilter(item, activeLevel) }

ReturnMatchesMembership(extent) ==
    \A item \in FeaturesInExtent(extent) :
        IF item.kind = "wall"
        THEN NumEq(LevelById(levels, item.id).levelNumber, activeLevel)
                 => item \in getFeaturesInExtentResult(extent)
        ELSE IF ItemIsBuilding(item)
        THEN item \in getFeaturesInExtentResult(extent)
        ELSE item \in getFeaturesInExtentResult(extent)
                 <=> activeLevel \in MemberNumbers(item.id)

\* C23: a call of getFeaturesInExtent at active level n returns a
\* non-building feature of the extent exactly when n is among the level
\* numbers the feature was routed to, returns every building feature of
\* the extent, and returns the wall features of the Levels of number n.
C23_ReturnedIffMember ==
    [][ \A extent \in Extents :
          (\E dur \in Timings : GetFeaturesInExtent(extent, dur))
              => ReturnMatchesMembership(extent)' ]_vars

\* the filters a caller passes to getPresentLevels: every feature, and the
\* one of the level picker
CallerFilters == {"every", "picker"}

ItemIndoor(item) ==
    IF item.kind = "wall" THEN "" ELSE features[item.id].tags.indoor

PassesCallerFilter(item, filter) ==
    \/ filter = "every"
    \/ /\ Truthy(ItemLevelTag(item))
       /\ \/ item.kind = "wall"
          \/ ItemIndoor(item) \in {"room", "corridor", "area"}

\* the orders Array.prototype.sort((a, b) => a - b) can leave the numbers
\* of S in: ascending, and any order when a NaN makes the comparison
\* inconsistent
RECURSIVE Ascending(_)
Ascending(S) ==
    IF S = {} THEN <<>>
    ELSE << SetMin(S) >> \o Ascending(S \ {SetMin(S)})

SortedOrders(S) ==
    IF NaN \notin S THEN { Ascending(S) }
    ELSE { q \in [1 .. Cardinality(S) -> S] : SeqToSet(q) = S }

\* the results getPresentLevels(extent, projection, filter) can return
getPresentLevels(extent, filter) ==
    LET passing == { item \in FeaturesInExtent(extent) :
                        PassesCallerFilter(item, filter) }
        bounds == UNION { UNION { {l.from, l.to} :
                                    l \in SeqToSet(parseLevel(ItemLevelTag(item))) } :
                          item \in passing }
    IN  SortedOrders(bounds)

\* the level numbers at which an item has level membership
ItemNumbers(item) ==
    IF item.kind = "wall" THEN { LevelById(levels, item.id).levelNumber }
    ELSE MemberNumbers(item.id)

\* C24: getPresentLevels returns, ascending and without duplicates,
\* exactly the level numbers at which a feature of the extent that passes
\* the caller's filter has level membership, the levels strictly between
\* the bounds of a range included.
C24_PresentLevelsAreMemberLevels ==
    \A extent \in Extents : \A filter \in CallerFilters :
        \A result \in getPresentLevels(extent, filter) :
            /\ \A a, b \in DOMAIN result : a < b => result[a] < result[b]
            /\ SeqToSet(result) =
                   UNION { ItemNumbers(item) :
                             item \in { x \in FeaturesInExtent(extent) :
                                           PassesCallerFilter(x, filter) } }

----------------------------------------------------------------------------
(* C25: doors in a wall *)

\* a door on the axis at p, its width tag in grid steps (NaN: no tag)
Door(p, width) ==
    MkFeature("Point", {p}, [Tags(T0, "door", "", "") EXCEPT !.width = width])

Hall == MkFeature("Polygon", 10 .. 60, Tags(T0, "room", "", ""))

Partition == MkFeature("LineString", 20 .. 50, Tags(T0, "wall", "", ""))

\* doors in the partition without a width, of width 2.0 and of width 0.8,
\* and a door in the open hall
DoorPlain == Door(30, NaN)

DoorWide == Door(35, 20)

DoorNarrow == Door(42, 8)

DoorAway == Door(55, NaN)

DoorCatalog == {Hall, Partition, DoorPlain, DoorWide, DoorNarrow, DoorAway}

InitDoors ==
    /\ features = <<>>
    /\ levels = <<>>
    /\ resultingFeatures = {}
    /\ activeLevel = 0
    /\ nextLevelId = 1
    /\ pendingTimeouts = 0
    /\ dataset = DoorCatalog
    /\ LabelsInit(<<>>)
    /\ OverpassInit

SpecDoors == InitDoors /\ [][Next]_vars

LevelWithout(l, i) == [l EXCEPT !.features = SelectSeq(@, LAMBDA j : j # i)]

\* the wall lines that run along the axis and pass through p with their
\* ends further than reach away
LinesThrough(l, F, p, reach) ==
    { g \in { F[i].geometry : i \in { j \in SeqToSet(l.features) :
                                          /\ F[j].tags.indoor = "wall"
                                          /\ F[j].type = "LineString" } } :
        (p - reach) \in g /\ (p + reach) \in g }

\* the stretch of the line around p that the wall does not cover
OpeningAt(wall, line, p) ==
    { x \in line : \A y \in (IF x < p THEN x .. p ELSE p .. x) : y \notin wall }

Extent(g) == IF g = {} THEN 0 ELSE 0 - SetMin({ 0 - x : x \in g }) - SetMin(g)

\* the wall a rebuild of l from the members F gives, against its doors
DoorsOpenTheWall(l, F, wall) ==
    \A i \in SeqToSet(l.features) :
        (IsDoor(F[i]) /\ F[i].type = "Point") =>
            LET p == SetMin(F[i].geometry)
                w == DoorWidth(F[i])
            IN  /\ \A line \in LinesThrough(l, F, p, w) :
                       /\ Extent(OpeningAt(wall, line, p)) >= w - 2
                       /\ Extent(OpeningAt(wall, line, p)) <= w + 2
                /\ Intersection(DoorCircle(F[i]), WallLines(l, F)) = {}
                       => wall = WallOf(LevelWithout(l, i), F)

\* C25: when a Level is rebuilt, for every door on a wall line, of width
\* w taken from its width tag (1.2 without a numeric tag), the wall has an
\* opening along that line whose length differs from w by at most 0.2,
\* and a door whose disc of radius w/2 - 0.5 meets no wall line leaves the
\* wall as it is without the door.
C25_DoorOpeningHasDoorWidth ==
    [][ \A k \in DOMAIN levels :
          ( /\ PassStep
            /\ k \in DOMAIN levels'
            /\ levels[k].wallRebuildRequired
            /\ ~levels'[k].wallRebuildRequired )
          => DoorsOpenTheWall(levels[k], features, levels'[k].wall) ]_vars

----------------------------------------------------------------------------
(* C26: entrances and their walkways *)

\* an entrance on the left side of room A whose level tag names level 0
\* twice
EntranceTwice == MkFeature("Point", {10}, Tags(T00, "", "main", ""))

EntranceCatalog == {RoomA, RoomB, Entrance, EntranceTwice}

InitEntrances ==
    /\ features = <<>>
    /\ levels = <<>>
    /\ resultingFeatures = {}
    /\ activeLevel = 0
    /\ nextLevelId = 1
    /\ pendingTimeouts = 0
    /\ dataset = EntranceCatalog
    /\ LabelsInit(<<>>)
    /\ OverpassInit

SpecEntrances == InitEntrances /\ [][Next]_vars

\* the recognized entrance points among the members of l
EntrancesOf(l, F) ==
    { i \in SeqToSet(l.features) :
        F[i].type = "Point" /\ F[i].tags.entrance \in EntranceKinds }

\* the walkways generated for the entrance e among the members of l: they
\* carry the entrance value of e and end within the circle around e
WalkwaysOf(l, F, e) ==
    { i \in SeqToSet(l.features) :
        /\ F[i].tags.generated = "walkway"
        /\ F[i].tags.entrance = F[e].tags.entrance
        /\ \E x \in F[i].geometry : \E p \in F[e].geometry :
               Abs(x - p) < EntranceCircle }

\* C26: every Level holds at most one walkway for each of its entrance
\* points; a scheduling pass leaves no unhandled entrance in a Level it
\* has passed in view; and an entrance that a Level has handled is not
\* unhandled in that Level again.
C26_EntranceHandledOnce ==
    [][ /\ \A l \in SeqToSet(levels') : \A e \in EntrancesOf(l, features') :
              Cardinality(WalkwaysOf(l, features', e)) <= 1
        /\ \A extent \in Extents : \A dur \in Timings :
              LET ps == RebuildPass(PassStart, 1, extent, activeLevel, dur)
              IN  GetFeaturesInExtent(extent, dur) =>
                    \A k \in DOMAIN levels :
                        ( /\ LevelInView(levels[k], extent, activeLevel)
                          /\ (ps.aborted => k < ps.abortedAt) )
                        => levels'[k].unhandledEntrances = <<>>
        /\ \A l \in SeqToSet(levels) : \A m \in SeqToSet(levels') :
              l.id = m.id =>
                  \A e \in EntrancesOf(l, features) :
                      e \notin SeqToSet(l.unhandledEntrances)
                          => e \notin SeqToSet(m.unhandledEntrances) ]_vars

----------------------------------------------------------------------------
(* C27: the zoom bucket of the label cache *)

MaxZoomSteps == 20

\* the zooms from 17 on in steps of five hundredths
ZoomLevels == { 17 * ZoomUnit + 5 * k : k \in 0 .. MaxZoomSteps }

\* the view at a zoom: four pixels per unit at zoom 17, eight at zoom 18
ZoomView(zoom) == View(zoom, 4 + (4 * (zoom - 17 * ZoomUnit)) \div ZoomUnit)

ZoomKeys == { resolutionCacheKey(z) : z \in ZoomLevels }

\* one point of interest on the map
SceneZoom == << MapFeature("Point", << Rect(50, 50, 50, 50) >>,
                           << Text(100, 40, 16), IconOnly(16) >>) >>

InitZoom ==
    /\ features = <<>>
    /\ levels = <<>>
    /\ resultingFeatures = {}
    /\ activeLevel = 0
    /\ nextLevelId = 1
    /\ pendingTimeouts = 0
    /\ dataset = {}
    /\ scene = SceneZoom
    /\ viewState = ZoomView(17 * ZoomUnit)
    /\ cache = [i \in DOMAIN SceneZoom |-> NoEntry(ZoomKeys)]
    /\ candidates = <<>>
    /\ occupiedSpaces = <<>>
    /\ occupiedByLabels = <<>>
    /\ presentLabels = <<>>
    /\ providerCalls = [i \in DOMAIN SceneZoom |-> 0]
    /\ attached = FALSE
    /\ OverpassInit

NextZoom == \E z \in ZoomLevels : RenderFrame(ZoomView(z), <<>>)

SpecZoom == InitZoom /\ [][NextZoom]_vars

\* the frame at the present zoom has used its bucket of the cache
BucketUsed ==
    \E i \in DOMAIN scene :
        cache[i].labels[resolutionCacheKey(viewState.zoom)].kind # "undefined"

\* C27: the zoom bucket does not decrease when the zoom grows, and on an
\* interval [n, n+1) it is 2n on a lower part and 2n+1 on the rest, so
\* that no zoom above one of bucket 2n+1 falls back to bucket 2n.
C27_BucketIsMonotone ==
    BucketUsed =>
        LET z == viewState.zoom
            n == z \div ZoomUnit
        IN  /\ resolutionCacheKey(z) \in {2 * n, 2 * n + 1}
            /\ \A y \in ZoomLevels :
                   y <= z => resolutionCacheKey(y) <= resolutionCacheKey(z)

----------------------------------------------------------------------------
(* C28: what a rebuild and a pass leave alone *)

\* rebuildWall on the clean Levels of the state changes nothing
CleanRebuildIsNoOp ==
    \A k \in DOMAIN levels :
        ~levels[k].wallRebuildRequired =>
            LET rb == rebuildWall(levels[k], features)
            IN  /\ rb.level = levels[k]
                /\ rb.features = features

\* C28: rebuildWall on a clean Level changes neither its wall, nor the
\* geometry of a member, nor its dirty flag; and a scheduling pass changes
\* the wall and the member geometries of no Level that is clean, or whose
\* number is not the active level, or whose region envelope does not meet
\* the view extent.
C28_PassLeavesOtherLevelsAlone ==
    [][ /\ CleanRebuildIsNoOp
        /\ \A extent \in Extents :
              (\E dur \in Timings : GetFeaturesInExtent(extent, dur)) =>
                  \A k \in DOMAIN levels :
                      ( \/ ~levels[k].wallRebuildRequired
                        \/ ~LevelInView(levels[k], extent, activeLevel) )
                      => /\ levels'[k].wall = levels[k].wall
                         /\ \A i \in SeqToSet(levels[k].features) :
                                features'[i].geometry = features[i].geometry
      ]_vars

----------------------------------------------------------------------------
(* C29: walled rooms and unwalled areas *)

\* the polygons of the area members of l that carry one of the tags
PolygonsTagged(l, F, kinds) ==
    UNION { SeqToSet(getPolygons(F[i].geometry)) :
              i \in { j \in SeqToSet(l.features) :
                        IsArea(F[j]) /\ F[j].tags.indoor \in kinds } }

\* poly is treated as a walled room of l
Walled(l, F, poly) ==
    /\ poly \in SeqToSet(getWallSourceAreas(l, F))
    /\ Rings(poly) \subseteq WallLines(l, F)
    /\ poly \subseteq BaseWallArea(l, F)

UnwalledPolygons(l, F) ==
    UNION { SeqToSet(getPolygons(UnwalledAreas(l, F)[k].geometry)) :
              k \in DOMAIN UnwalledAreas(l, F) }

\* the Level has area members and all of them are corridors or generic
\* areas, and it has neither a drawn wall nor a level outline
OnlyOpenAreas(l, F) ==
    /\ PolygonsTagged(l, F, {"corridor", "area"}) # {}
    /\ \A i \in SeqToSet(l.features) :
           F[i].tags.indoor \in {"corridor", "area", ""}

\* C29 (as stated): every polygon member tagged room or corridor is a
\* walled room, its rings in the wall skeleton and its outline in the
\* buffered base wall area, and the unwalled areas are the polygons of the
\* generic walkable areas only.
C29_RoomsAndCorridorsAreWalled ==
    \A l \in LevelSet :
        /\ \A poly \in PolygonsTagged(l, features, {"room", "corridor"}) :
               Walled(l, features, poly)
        /\ UnwalledPolygons(l, features) = PolygonsTagged(l, features, {"area"})

\* C29 (amended): every polygon member tagged room is a walled room, its
\* rings in the wall skeleton and its outline in the buffered base wall
\* area; the polygon members tagged corridor or area are the unwalled
\* areas and none of them is a walled room; a rebuilt Level whose areas
\* are all corridors or generic areas has an empty wall.
C29_OnlyRoomsAreWalled ==
    \A l \in LevelSet :
        /\ \A poly \in PolygonsTagged(l, features, {"room"}) :
               Walled(l, features, poly)
        /\ UnwalledPolygons(l, features)
               = PolygonsTagged(l, features, {"corridor", "area"})
        /\ SeqToSet(getWallSourceAreas(l, features))
               = PolygonsTagged(l, features, {"room"})
        /\ (~l.wallRebuildRequired /\ OnlyOpenAreas(l, features)) => l.wall = {}

\* a rebuilt Level that holds a room and a corridor, the outline of the
\* corridor not being part of the wall skeleton
C29_Witness ==
    \E l \in LevelSet :
        /\ ~l.wallRebuildRequired
        /\ PolygonsTagged(l, features, {"room"}) # {}
        /\ \E poly \in PolygonsTagged(l, features, {"corridor"}) :
               ~(Rings(poly) \subseteq WallLines(l, features))

----------------------------------------------------------------------------
(* C30: the inner wall of a room within a room *)

\* the walled rooms S, R of l with S strictly inside the larger R
NestedRooms(l, F) ==
    { sr \in SeqToSet(getWallSourceAreas(l, F)) \X SeqToSet(getWallSourceAreas(l, F)) :
        /\ sr[1] \subseteq sr[2]
        /\ Rings(sr[1]) \cap Rings(sr[2]) = {}
        /\ Area(sr[1]) < Area(sr[2]) }

\* the band of half the inner wall width on both sides of the outline
InnerWallBand(poly) ==
    Difference(Buffer(poly, innerWallWidth \div 2),
               Buffer(poly, 0 - (innerWallWidth \div 2)))

\* the Level at position k is rebuilt by the step
RebuiltInStep(k) ==
    /\ k \in DOMAIN levels'
    /\ levels[k].wallRebuildRequired
    /\ ~levels'[k].wallRebuildRequired
    /\ PassStep

----------------------------------------------------------------------------
(* C31: progress of the passes *)

\* the step is a call of getFeaturesInExtent that has rebuilt a Level that
\* was dirty and in view
RebuiltOneOf(dirty) ==
    \E l \in SeqToSet(levels') : l.id \in dirty /\ ~l.wallRebuildRequired

\* C31: every call of getFeaturesInExtent that finds a dirty Level of the
\* active number in the extent rebuilds at least one such Level, wherever
\* the Level stands in the list and however the clock moves during the call.
C31_EveryPassRebuilds ==
    [][ \A extent \in Extents : \A dur \in Timings :
          (GetFeaturesInExtent(extent, dur) /\ DirtyInView(levels, extent) # {})
              => RebuiltOneOf(DirtyInView(levels, extent))
      ]_vars

\* a call whose first reading of elapsed is below the budget rebuilds a
\* dirty Level in view
PromptPassRebuilds ==
    [][ \A extent \in Extents : \A dur \in Timings :
          (GetFeaturesInExtent(extent, dur) /\ DirtyInView(levels, extent) # {}
           /\ dur[0] < Budget)
              => RebuiltOneOf(DirtyInView(levels, extent))
      ]_vars


----------------------------------------------------------------------------
(* C32: the placement search ends *)

\* the search renderFeature makes for feature i in the present view when
\* the cache holds nothing for it
FreshSearch(i) ==
    LET key == resolutionCacheKey(viewState.zoom)
    IN  Search(scene[i], CreatedEntry(scene[i], {key}), key, viewState,
               occupiedByLabels, occupiedSpaces)

Searchable == { i \in DOMAIN scene : Supported(scene[i]) }

\* C32: the placement search for one feature asks the label provider at
\* most once for every variant of its fallback chain and runs the width loop
\* at most 10 times after each call, whether a variant fits or not.
C32_SearchEnds ==
    \A i \in Searchable :
        LET r == FreshSearch(i)
        IN  /\ r.calls <= Len(scene[i].label)
            /\ Len(r.iterations) = r.calls
            /\ \A k \in DOMAIN r.iterations : r.iterations[k] <= Iterations

\* a frame has left a feature without a label whose search asks for every
\* variant, fits none and runs the width loop to its last iteration
C32_Witness ==
    /\ attached
    /\ \E i \in Searchable :
           /\ providerCalls[i] > 0
           /\ ~Labelled(presentLabels, i)
           /\ LET r == FreshSearch(i)
              IN  /\ ~r.placed
                  /\ r.calls = Len(scene[i].label)
                  /\ r.calls > 1
                  /\ \E k \in DOMAIN r.iterations : r.iterations[k] = Iterations


----------------------------------------------------------------------------
(* C33: pending entrances and merges *)

\* the entrances of Level l that generateEntranceWalkways has yet to see
Pending(l) == SeqToSet(l.unhandledEntrances)

\* C33: an entrance that is pending in a Level before an addFeature call is
\* pending afterwards in the Level of that number that holds it, also when
\* the call has folded its Level into another one.
C33_PendingEntrancesSurviveMerge ==
    [][ AddStep =>
          \A l \in SeqToSet(levels) : \A e \in Pending(l) :
              \E m \in SeqToSet(levels') :
                  /\ NumEq(m.levelNumber, l.levelNumber)
                  /\ e \in SeqToSet(m.features)
                  /\ e \in Pending(m)
      ]_vars

\* the pending entrances of the Level that survives a merge are kept
SurvivorKeepsItsPending ==
    [][ AddStep =>
          \A l \in SeqToSet(levels) :
              l.id \in LevelIds(levels') =>
                  Pending(l) \subseteq Pending(LevelById(levels', l.id))
      ]_vars


----------------------------------------------------------------------------
(* C34: members listed twice *)

\* the features that the member list of l holds more than once
Duplicates(l) ==
    { l.features[a] : a \in { x \in DOMAIN l.features :
                                \E y \in DOMAIN l.features :
                                    x # y /\ l.features[x] = l.features[y] } }

\* C34: no Level lists a feature twice among its members, also when the
\* level tag of the feature names a level number through several tokens and
\* after Levels have been merged.
C34_NoDuplicateMembers == \A l \in LevelSet : Duplicates(l) = {}

\* levelsOfFeature gives a number of the feature more than once
RepeatsANumber(i) ==
    LET numbers == levelsOfFeature(features[i].tags.level)
    IN  \E a \in DOMAIN numbers : \E b \in DOMAIN numbers :
            a # b /\ NumEq(numbers[a], numbers[b])

\* only a feature whose level tag repeats a number is listed twice
OnlyRepeatedNumbersDuplicate ==
    \A l \in LevelSet : \A i \in Duplicates(l) : RepeatsANumber(i)


----------------------------------------------------------------------------
(* C35: the wall features of the result set *)

\* the Levels whose wall feature is in resultingFeatures
WallsPresent == { item.id : item \in { x \in resultingFeatures : x.kind = "wall" } }

\* C35: the result set holds the wall feature of every Level of the Level
\* list and of no other Level, so that the wall of a Level folded into
\* another one is gone after the addFeature call and the wall of the
\* surviving Level is still there.
C35_OneWallPerLiveLevel == WallsPresent = LevelIds(levels)

\* a merge has taken place: a Level that was created is no longer in the
\* list, and the Level that holds its members is
C35_Witness ==
    /\ \E id \in 1 .. (nextLevelId - 1) : id \notin LevelIds(levels)
    /\ \E l \in LevelSet : \E a \in SeqToSet(l.features) :
           \E b \in SeqToSet(l.features) :
               /\ IsArea(features[a])
               /\ IsArea(features[b])
               /\ features[a].geometry \cap features[b].geometry = {}
               /\ WallItem(l.id) \in resultingFeatures


----------------------------------------------------------------------------
(* C36: a rebuild after an earlier rebuild *)

\* rebuildWall called on every Level of lv from position k on
RECURSIVE RebuildAll(_, _, _)
RebuildAll(lv, F, k) ==
    IF k > Len(lv) THEN [levels |-> lv, features |-> F]
    ELSE LET rb == rebuildWall(lv[k], F)
         IN  RebuildAll([lv EXCEPT ![k] = rb.level], rb.features, k + 1)

\* no wall has been built so far
Unbuilt ==
    /\ Len(Added) = Len(features)
    /\ \A l \in LevelSet : l.wallRebuildRequired /\ l.wall = {}

\* the walls after addFeature of f and a rebuild of every Level, from the
\* Levels lv and the arena F
WallsAfterAdding(lv, F, f) ==
    LET st == addFeature([SourceState EXCEPT !.levels = lv], Len(F) + 1, f)
        rb == RebuildAll(st.levels, Append(F, f), 1)
    IN  [k \in DOMAIN rb.levels |-> rb.levels[k].wall]

\* C36: for the features F1 added so far and a further feature F2, the
\* walls built from F1, then F2 added and the walls built again, are the
\* walls built once after F1 and F2 are added.
C36_RebuildForgetsEarlierRebuilds ==
    (Unbuilt /\ Len(Added) < MaxFeatures) =>
        \A f \in dataset :
            LET early == RebuildAll(levels, features, 1)
            IN  WallsAfterAdding(early.levels, early.features, f)
                    = WallsAfterAdding(levels, features, f)


----------------------------------------------------------------------------
(* class OverpassSource: the loader and its counter *)

MaxLoads == 32

\* if (this.concurrentRequests > 30)
MaxConcurrentRequests == 30

\* the calls of the loader made so far
Started == loads.fetching + loads.reading + loads.settled

\* loader(extent, ...) up to the await of fetch: cached tells whether
\* cache.match gives a response that is less than a week old
Load(cached) ==
    /\ Started < MaxLoads
    /\ IF cached
       THEN /\ loads' = [loads EXCEPT !.reading = @ + 1]
            /\ UNCHANGED concurrentRequests
       ELSE IF concurrentRequests > MaxConcurrentRequests
       THEN \* removeLoadedExtent(extent); failure(); return
            /\ loads' = [loads EXCEPT !.settled = @ + 1]
            /\ UNCHANGED concurrentRequests
       ELSE /\ concurrentRequests' = concurrentRequests + 1
            /\ loads' = [loads EXCEPT !.fetching = @ + 1]
    /\ UNCHANGED <<sourceVars, labelVars>>

\* the promise of fetch is fulfilled with a response; ok: its status is 200
\* and it is put into the cache, otherwise the loader throws and the catch
\* block reports the failure
FetchResolves(ok) ==
    /\ loads.fetching > 0
    /\ concurrentRequests' = concurrentRequests - 1
    /\ loads' = IF ok
                THEN [loads EXCEPT !.fetching = @ - 1, !.reading = @ + 1]
                ELSE [loads EXCEPT !.fetching = @ - 1, !.settled = @ + 1]
    /\ UNCHANGED <<sourceVars, labelVars>>

\* the promise of fetch is rejected (no network): the await throws, the
\* statements up to the catch block are skipped, the catch block calls
\* removeLoadedExtent and failure
FetchRejects ==
    /\ loads.fetching > 0
    /\ loads' = [loads EXCEPT !.fetching = @ - 1, !.settled = @ + 1]
    /\ UNCHANGED concurrentRequests
    /\ UNCHANGED <<sourceVars, labelVars>>

\* the rest of the loader: cache.match, response.json, readFeatures,
\* addFeatures and success, or an exception and the catch block
ReadResponse ==
    /\ loads.reading > 0
    /\ loads' = [loads EXCEPT !.reading = @ - 1, !.settled = @ + 1]
    /\ UNCHANGED concurrentRequests
    /\ UNCHANGED <<sourceVars, labelVars>>

InitOverpass ==
    /\ features = <<>>
    /\ levels = <<>>
    /\ resultingFeatures = {}
    /\ activeLevel = 0
    /\ nextLevelId = 1
    /\ pendingTimeouts = 0
    /\ dataset = {}
    /\ LabelsInit(<<>>)
    /\ OverpassInit

NextOverpass ==
    \/ \E cached \in BOOLEAN : Load(cached)
    \/ \E ok \in BOOLEAN : FetchResolves(ok)
    \/ FetchRejects
    \/ ReadResponse

SpecOverpass == InitOverpass /\ [][NextOverpass]_vars

----------------------------------------------------------------------------
(* C37: the counter of the requests *)

\* C37: concurrentRequests is the number of the requests that were counted
\* and whose fetch has not ended, so that it is 0 whenever no load is under
\* way and the limit is reached by requests in flight only.
C37_CounterIsBalanced == concurrentRequests = loads.fetching

\* the counter never falls below the number of fetches under way, and a
\* step other than a rejected fetch keeps the two apart by the same amount
CounterLeaksOnRejectOnly ==
    [][ /\ concurrentRequests' >= loads'.fetching
        /\ ~FetchRejects =>
              concurrentRequests' - loads'.fetching
                  = concurrentRequests - loads.fetching
      ]_vars

====
